---- MODULE Spec2Model ----
(***************************************************************************)
(* Chaos fault-injection engine of the API gateway: the Controller         *)
(* (internal/chaos/controller.go), the administrative handlers             *)
(* (internal/chaos/admin.go), the request-path Middleware                  *)
(* (internal/chaos/middleware.go) and the auto-recovery goroutine.         *)
(*                                                                         *)
(* Time is counted in milliseconds.  The clock moves in steps of a quantum  *)
(* and never passes the instant at which the auto-recovery goroutine's     *)
(* time.Sleep ends without the goroutine having run (the goroutine is      *)
(* served as soon as its sleep is over).                                   *)
(*                                                                         *)
(* Spec      requests are served concurrently, the clock ticks in seconds  *)
(* TimedSpec requests are served one at a time, the clock ticks in half    *)
(*           seconds                                                       *)
(* LiveSpec  TimedSpec with the fairness of the Go scheduler               *)
(* AdminSpec the administrative handlers with bodies of every kind         *)
(*           (negative and oversized numbers, unparseable payloads) and    *)
(*           one request                                                   *)
(* StatusSpec one status query among administrative calls, ticks and one   *)
(*           request                                                       *)
(* CollectorSpec the Metrics Collector fed latency samples for one key and  *)
(*           queried for its percentiles                                   *)
(* GatewaySpec the handler chain of /users and /orders: Metrics,           *)
(*           Analytics, the rate limiter on Redis, the chaos middleware    *)
(*           and the backend, with one apply call; no time passes          *)
(* LimiterSpec the same chain without chaos configuration, with rate       *)
(*           limiter keys that expire and clients without a registered key *)
(* ScrapeSpec the same chain without chaos configuration, with the metrics *)
(*           endpoint queried while the requests are served                *)
(* Every administrative call is made with the method its handler expects.  *)
(***************************************************************************)
EXTENDS Integers, Sequences, FiniteSets, TLC

VARIABLES
    config,     \* controller.go:10  the package-level Config
    stats,      \* controller.go:11  the package-level Stats
    mu,         \* controller.go:9   holder of the write lock, or NoOne
    now,        \* time.Now(), in milliseconds
    wakeAt,     \* instant at which the AutoRecover goroutine's Sleep ends
    reqs,       \* one record per HTTP request going through Middleware
    adminCalls, \* number of administrative calls served so far
    setCalls,   \* number of those that called Set
    lastReq,    \* the administrative call served last (decoded body)
    log,        \* the decision-log events emitted so far, with their numbers
    status,     \* the status query: its position, its cfg and its response
    metricsCollector, \* metrics.go: the maps of the MetricsCollector
    fed,        \* the durations passed to RecordLatency by the feeder, in order
    feed,       \* the order in which the feeder produces its samples
    snapshot,   \* the value returned by the last GetMetrics()
    encoder,    \* the metrics endpoint's json.Encode of that value
    gw,         \* one record per HTTP request: its way through the gateway's
                \* handler chain around the chaos middleware
    redis,      \* the rate limiter's keys in Redis, by tenant ID
    analytics   \* the analytics keys in Redis

\* the variables of the chaos engine
chaosVars ==
    <<config, stats, mu, now, wakeAt, reqs, adminCalls, setCalls, lastReq,
      log>>

\* the variables of the Metrics Collector and of its feeder
collectorVars == <<metricsCollector, fed, feed, snapshot, encoder>>

\* the variables of the handler chain around the chaos middleware
gatewayVars == <<gw, redis, analytics>>

\* the variables outside the chaos engine's request path and handlers
others == <<status, collectorVars, gatewayVars>>

vars == <<chaosVars, others>>

----------------------------------------------------------------------------
(* Bounds of the model *)

NumRequests == 2
MaxAdmin == 2
MaxSeconds == 2
\* latency samples fed to the collector
NumSamples == 1500
\* longest sample buffer on which a metrics query is made
MaxSorted == 100

----------------------------------------------------------------------------
(* Time *)

Millisecond == 1
Second == 1000 * Millisecond

\* time.Duration.Milliseconds()
Milliseconds(d) == d \div Millisecond

\* The zero time.Time (IsZero() is true); every real instant is later.
ZeroTime == 0
BootTime == Second
MaxTime == BootTime + MaxSeconds * Second

\* the comparison the wrong way round: t.Before(u)
After_Before(t, u) == t < u

\* t.After(u)
After(t, u) == t > u

\* the duration of the goroutine's time.Sleep
SleepInterval == 1 * Second

Min(a, b) == IF a <= b THEN a ELSE b

----------------------------------------------------------------------------
(* Data *)

NoOne == 0
Requests == 1 .. NumRequests

\* r.URL.Path of the requests: the path of the request that arrived through
\* the gateway's handler chain; sent straight to the chaos middleware, the
\* requests alternate between the two routes
PathOf(r) ==
    IF gw[r].path # "" THEN gw[r].path
    ELSE IF r % 2 = 1 THEN "/users" ELSE "/orders"

\* Config{}
ZeroConfig ==
    [Enabled |-> FALSE, Route |-> "", Delay |-> 0, ErrorRate |-> 0,
     DropRate |-> 0, ExpiresAt |-> ZeroTime]

\* Stats{}
ZeroStats ==
    [TotalRequests |-> 0, DroppedRequests |-> 0, FailedRequests |-> 0,
     DelayedRequests |-> 0, LastRecoveryTime |-> ZeroTime,
     LastInjectionTime |-> ZeroTime]

\* Bodies of POST /admin/chaos
ChaosRequest ==
    [FailBackend : BOOLEAN, SlowMs : {0, 500}, DropPercent : {0, 100},
     DurationSec : {0, 1}, Route : {"", "/users"}]

\* Bodies of POST /admin/chaos/enable
EnableRequest ==
    [Route : {""}, DelayMs : {0}, ErrorPct : {50}, DropPct : {0, 50},
     Duration : {0}]

\* ChaosRequest{} and the zero value of EnableHandler's req
ZeroChaosRequest ==
    [FailBackend |-> FALSE, SlowMs |-> 0, DropPercent |-> 0,
     DurationSec |-> 0, Route |-> ""]
ZeroEnableRequest ==
    [Route |-> "", DelayMs |-> 0, ErrorPct |-> 0, DropPct |-> 0,
     Duration |-> 0]

\* Bodies of POST /admin/chaos with numbers of every sign and size
AnyChaosRequest ==
    [FailBackend : {TRUE}, SlowMs : {500}, DropPercent : {100},
     DurationSec : {1}, Route : {"/users"}]
    \cup [FailBackend : {FALSE}, SlowMs : {-1, 0}, DropPercent : {-1, 150},
          DurationSec : {-1, 0}, Route : {""}]

\* Bodies of POST /admin/chaos/enable with numbers of every sign and size
AnyEnableRequest ==
    [Route : {""}, DelayMs : {-1, 0}, ErrorPct : {-1, 101},
     DropPct : {150}, Duration : {0}]

\* Bodies for the status scenarios: every request is failed, for one second
\* or until recovery
StatusChaosRequest ==
    {q \in ChaosRequest :
        q.FailBackend /\ q.SlowMs = 0 /\ q.DropPercent = 0 /\ q.Route = ""}
StatusEnableRequest == {q \in EnableRequest : q.DropPct = 0}

\* A payload is JSON text: it decodes ("ok"), or it is not JSON at all
\* ("syntax"), or it is JSON whose slow_ms / delay_ms is a string ("type");
\* req holds the values written in it.
Payloads(requests) == [json : {"ok"}, req : requests]

\* Payloads that cannot be parsed
Malformed(requests) == [json : {"syntax", "type"}, req : requests]

\* json.NewDecoder(r.Body).Decode(&req): a syntax error leaves req as it
\* was declared; a value of the wrong type leaves its field alone, the
\* other fields are decoded, and an error is returned all the same
Decode(body, zero, illTyped) ==
    CASE body.json = "ok" -> [req |-> body.req, err |-> FALSE]
      [] body.json = "syntax" -> [req |-> zero, err |-> TRUE]
      [] body.json = "type" ->
            [req |-> [body.req EXCEPT ![illTyped] = zero[illTyped]],
             err |-> TRUE]

\* Bodies for the whole chain: every request is dropped, or every request
\* is failed, until recovery
GatewayChaosRequest ==
    {q \in ChaosRequest :
        /\ q.SlowMs = 0 /\ q.DurationSec = 0 /\ q.Route = ""
        /\ q.FailBackend <=> q.DropPercent = 0}

\* what the unparseable payloads meant to say
MalformedChaosRequest ==
    [FailBackend |-> TRUE, SlowMs |-> 500, DropPercent |-> 100,
     DurationSec |-> 1, Route |-> "/users"]
MalformedEnableRequest ==
    [Route |-> "/users", DelayMs |-> 500, ErrorPct |-> 100, DropPct |-> 0,
     Duration |-> 1]

\* Values of rand.Intn(100) that tell the configured rates apart
Draws == {0, 49, 50, 99}

\* no status query has been made
NoStatus == [pc |-> "idle"]

NewRequest ==
    [pc |-> "new", path |-> "", cfg |-> ZeroConfig, tmp |-> 0, wake |-> 0,
     resp |-> <<>>, fwd |-> <<>>, rec |-> {}, t0 |-> ZeroTime]

----------------------------------------------------------------------------
(* Maps *)

\* a Go map read at a key it may not hold
Lookup(m, key, zero) == IF key \in DOMAIN m THEN m[key] ELSE zero

\* m[key] = value
Store(m, key, value) ==
    [k \in DOMAIN m \cup {key} |-> IF k = key THEN value ELSE m[k]]

\* m[key]++
Increment(m, key) == Store(m, key, Lookup(m, key, 0) + 1)

\* the empty map
EmptyMap == [k \in {} |-> 0]

----------------------------------------------------------------------------
(* Decision log *)

DecisionChaos == "CHAOS"

\* the metadata of an event; "" and 0 stand for a key that is not given
NoMetadata == [chaos_type |-> "", action |-> "", delay_ms |-> 0, error_code |-> 0]

\* decisionlog.LogDecision(r, decision, reason, metadata): one structured
\* event is emitted; r is NoOne for an administrative request
LogDecision(l, r, decision, reason, metadata) ==
    Increment(l, [req |-> r, decision |-> decision, reason |-> reason,
                  metadata |-> metadata])

----------------------------------------------------------------------------
(* Controller *)

\* Record* without mutual exclusion: the lock is taken whoever holds it
MuLockable_NoExclusion == TRUE

\* mu.Lock() returns only when nobody holds the lock
MuLockable == mu = NoOne

\* Set(cfg) that writes the fields one by one and leaves the route
SetConfig_KeepsRoute(cfg) ==
    /\ config' = [cfg EXCEPT !.Route = config.Route]
    /\ stats' = IF cfg.Enabled
                THEN [stats EXCEPT !.LastInjectionTime = now]
                ELSE stats

\* Set(cfg) without the stamp of the injection time
SetConfig_NoStamp(cfg) ==
    /\ config' = cfg
    /\ stats' = stats

\* Set(cfg) that starts the statistics afresh
SetConfig_ResetStats(cfg) ==
    /\ config' = cfg
    /\ stats' = IF cfg.Enabled
                THEN [ZeroStats EXCEPT !.LastInjectionTime = now]
                ELSE ZeroStats

\* Set(cfg), the section under the lock
SetConfig(cfg) ==
    /\ config' = cfg
    /\ stats' = IF cfg.Enabled
                THEN [stats EXCEPT !.LastInjectionTime = now]
                ELSE stats

\* Clear() that starts the statistics afresh
ClearConfig_ResetStats ==
    /\ config' = ZeroConfig
    /\ stats' = [ZeroStats EXCEPT !.LastRecoveryTime = now]

\* Clear(), the section under the lock
ClearConfig ==
    /\ config' = ZeroConfig
    /\ stats' = [stats EXCEPT !.LastRecoveryTime = now]

\* the IsZero test without its negation
Expired_ZeroOnly(cfg, t) ==
    cfg.Enabled /\ cfg.ExpiresAt = ZeroTime /\ After(t, cfg.ExpiresAt)

\* the condition of the auto-recovery goroutine
Expired(cfg, t) ==
    cfg.Enabled /\ cfg.ExpiresAt # ZeroTime /\ After(t, cfg.ExpiresAt)

\* one iteration of the goroutine started by AutoRecover()
AutoRecover ==
    /\ now >= wakeAt
    /\ MuLockable
    /\ IF Expired(config, now)
       THEN /\ config' = ZeroConfig
            /\ stats' = [stats EXCEPT !.LastRecoveryTime = now]
       ELSE UNCHANGED <<config, stats>>
    /\ wakeAt' = now + SleepInterval
    /\ UNCHANGED <<mu, now, reqs, adminCalls, setCalls, lastReq, log>>

----------------------------------------------------------------------------
(* Administrative handlers *)

\* the expiry computed whatever the duration
ApplyConfig_AlwaysExpires(req, t) ==
    [Enabled |-> TRUE,
     Route |-> req.Route,
     ErrorRate |-> IF req.FailBackend THEN 100 ELSE 0,
     Delay |-> IF req.SlowMs > 0 THEN req.SlowMs * Millisecond ELSE 0,
     DropRate |-> IF req.DropPercent > 0 THEN req.DropPercent ELSE 0,
     ExpiresAt |-> t + req.DurationSec * Second]

\* a partial update: a body without route keeps the route in place
ApplyConfig_Merge(req, t) ==
    [Enabled |-> TRUE,
     Route |-> IF req.Route = "" THEN config.Route ELSE req.Route,
     ErrorRate |-> IF req.FailBackend THEN 100 ELSE 0,
     Delay |-> IF req.SlowMs > 0 THEN req.SlowMs * Millisecond ELSE 0,
     DropRate |-> IF req.DropPercent > 0 THEN req.DropPercent ELSE 0,
     ExpiresAt |-> IF req.DurationSec > 0
                   THEN t + req.DurationSec * Second
                   ELSE ZeroTime]

\* the Config built by ChaosConfigHandler from the decoded body
ApplyConfig(req, t) ==
    [Enabled |-> TRUE,
     Route |-> req.Route,
     ErrorRate |-> IF req.FailBackend THEN 100 ELSE 0,
     Delay |-> IF req.SlowMs > 0 THEN req.SlowMs * Millisecond ELSE 0,
     DropRate |-> IF req.DropPercent > 0 THEN req.DropPercent ELSE 0,
     ExpiresAt |-> IF req.DurationSec > 0
                   THEN t + req.DurationSec * Second
                   ELSE ZeroTime]

\* POST /admin/chaos with one of `bodies`; at most maxSets calls of Set
ChaosConfigHandler(bodies, maxSets) ==
    /\ adminCalls < MaxAdmin
    /\ \E body \in bodies :
          LET d == Decode(body, ZeroChaosRequest, "SlowMs") IN
          /\ IF d.err
             THEN UNCHANGED <<config, stats, setCalls>>
             ELSE /\ setCalls < maxSets
                  /\ MuLockable
                  /\ SetConfig(ApplyConfig(d.req, now))
                  /\ setCalls' = setCalls + 1
          /\ lastReq' = [handler |-> "ChaosConfigHandler", body |-> d.req,
                         payload |-> body.json]
    /\ adminCalls' = adminCalls + 1
    /\ UNCHANGED <<mu, now, wakeAt, reqs, log>>

\* the Config built by the legacy EnableHandler
EnableConfig(req, t) ==
    [Enabled |-> TRUE,
     Route |-> req.Route,
     Delay |-> req.DelayMs * Millisecond,
     ErrorRate |-> req.ErrorPct,
     DropRate |-> req.DropPct,
     ExpiresAt |-> IF req.Duration > 0
                   THEN t + req.Duration * Second
                   ELSE ZeroTime]

\* POST /admin/chaos/enable with one of `bodies`: the error of Decode is
\* not looked at
EnableHandler(bodies, maxSets) ==
    /\ adminCalls < MaxAdmin
    /\ setCalls < maxSets
    /\ MuLockable
    /\ \E body \in bodies :
          LET d == Decode(body, ZeroEnableRequest, "DelayMs") IN
          /\ SetConfig(EnableConfig(d.req, now))
          /\ lastReq' = [handler |-> "EnableHandler", body |-> d.req,
                         payload |-> body.json]
    /\ adminCalls' = adminCalls + 1
    /\ setCalls' = setCalls + 1
    /\ UNCHANGED <<mu, now, wakeAt, reqs, log>>

\* POST /admin/chaos/recover: Clear(), then the decision log
ChaosRecoverHandler ==
    /\ adminCalls < MaxAdmin
    /\ MuLockable
    /\ ClearConfig
    /\ log' = LogDecision(log, NoOne, DecisionChaos, "Chaos recovery initiated",
                          [NoMetadata EXCEPT !.action = "RECOVERY"])
    /\ lastReq' = [handler |-> "ChaosRecoverHandler"]
    /\ adminCalls' = adminCalls + 1
    /\ UNCHANGED <<mu, now, wakeAt, reqs, setCalls>>

DisableHandler ==
    /\ adminCalls < MaxAdmin
    /\ MuLockable
    /\ ClearConfig
    /\ lastReq' = [handler |-> "DisableHandler"]
    /\ adminCalls' = adminCalls + 1
    /\ UNCHANGED <<mu, now, wakeAt, reqs, setCalls, log>>

\* the flag computed from the recovery timestamp alone
IsRecovered_AnyRecovery(cfg, st) == st.LastRecoveryTime # ZeroTime

\* !cfg.Enabled && !stats.LastRecoveryTime.IsZero()
IsRecovered(cfg, st) == ~cfg.Enabled /\ st.LastRecoveryTime # ZeroTime

\* GET /admin/chaos/status: cfg := Get(), then stats := GetStats() and the
\* response; one query is made
ChaosStatusHandler ==
    /\ MuLockable
    /\ \/ /\ status.pc = "idle"
          /\ status' = [pc |-> "got", cfg |-> config]
       \/ /\ status.pc = "got"
          /\ status' =
                [pc |-> "done",
                 resp |-> [Enabled |-> status.cfg.Enabled,
                           Config |-> status.cfg,
                           Stats |-> stats,
                           IsRecovered |-> IsRecovered(status.cfg, stats)]]
    /\ UNCHANGED <<config, stats, mu, now, wakeAt, reqs, adminCalls, setCalls,
                   lastReq, log>>

----------------------------------------------------------------------------
(* Middleware: the handler of one request, one action per step.  A step   *)
(* that takes the lock also does the handler's local work that follows.   *)

\* a disabled configuration ends the handler without calling next
AfterRecord_NoNext(cfg, path) ==
    IF ~cfg.Enabled THEN "done"
    ELSE IF cfg.Route # "" /\ cfg.Route # path THEN "forward"
    ELSE IF cfg.Delay > 0 THEN "delay"
    ELSE "errcheck"

\* the route filter is not consulted
AfterRecord_NoRoute(cfg, path) ==
    IF ~cfg.Enabled THEN "forward"
    ELSE IF cfg.Delay > 0 THEN "delay"
    ELSE "errcheck"

\* where the handler goes once RecordRequest() has returned
AfterRecord(cfg, path) ==
    IF ~cfg.Enabled THEN "forward"
    ELSE IF cfg.Route # "" /\ cfg.Route # path THEN "forward"
    ELSE IF cfg.Delay > 0 THEN "delay"
    ELSE "errcheck"

\* the error rate read again from the Controller at the error stage
ErrorTriggers_Reread(cfg, draw) ==
    config.ErrorRate > 0 /\ draw < config.ErrorRate

\* the error draw compared one too low
ErrorTriggers_OffByOne(cfg, draw) ==
    cfg.ErrorRate > 0 /\ draw < cfg.ErrorRate - 1

\* cfg.ErrorRate > 0 && rand.Intn(100) < cfg.ErrorRate
ErrorTriggers(cfg, draw) == cfg.ErrorRate > 0 /\ draw < cfg.ErrorRate

\* the drop draw compared one too low
DropTriggers_OffByOne(cfg, draw) ==
    cfg.DropRate > 0 /\ draw < cfg.DropRate - 1

\* cfg.DropRate > 0 && rand.Intn(100) < cfg.DropRate
DropTriggers(cfg, draw) == cfg.DropRate > 0 /\ draw < cfg.DropRate

\* the metadata of the drop event without its tag
DropMetadata_Untagged == NoMetadata

\* map[string]any{"chaos_type": "DROP_PERCENT"}
DropMetadata == [NoMetadata EXCEPT !.chaos_type = "DROP_PERCENT"]

\* the return after the synthetic 503 is missing
AfterFail_NoReturn == "dropcheck"

\* the return after the synthetic 503
AfterFail == "done"

\* the return after the synthetic 504
AfterDrop == "done"

StatusServiceUnavailable == 503
StatusGatewayTimeout == 504

\* the handler's record when it has reached `pc`: at the return the time of
\* entry is no longer kept
Reached(rq, pc) ==
    IF pc = "done" THEN [rq EXCEPT !.pc = pc, !.t0 = ZeroTime]
    ELSE [rq EXCEPT !.pc = pc]

\* requests inside the handler
InFlight == {q \in Requests : reqs[q].pc \notin {"new", "done"}}

\* cfg := Get(), at most `workers` requests being served at a time
Get(r, workers) ==
    /\ reqs[r].pc = "new"
    /\ Cardinality(InFlight) < workers
    /\ MuLockable
    /\ reqs' = [reqs EXCEPT ![r] =
                   [@ EXCEPT !.pc = "entered", !.path = PathOf(r),
                             !.cfg = config, !.t0 = now]]
    /\ UNCHANGED <<config, stats, mu, now, wakeAt, adminCalls, setCalls, lastReq, log>>

\* a counter increment: mu.Lock() and the load of the counter
LockAndLoad(r, from, to, counter) ==
    /\ reqs[r].pc = from
    /\ MuLockable
    /\ mu' = r
    /\ reqs' = [reqs EXCEPT ![r] = [@ EXCEPT !.pc = to, !.tmp = counter]]
    /\ UNCHANGED <<config, stats, now, wakeAt, adminCalls, setCalls, lastReq, log>>

\* a counter increment: mu.Unlock() after the store of the counter
Unlock(r) == IF mu = r THEN NoOne ELSE mu

\* RecordRequest()
RecordRequest(r) ==
    \/ LockAndLoad(r, "entered", "recording", stats.TotalRequests)
    \/ /\ reqs[r].pc = "recording"
       /\ stats' = [stats EXCEPT !.TotalRequests = reqs[r].tmp + 1]
       /\ mu' = Unlock(r)
       /\ reqs' = [reqs EXCEPT ![r] =
                      [@ EXCEPT !.pc = AfterRecord(reqs[r].cfg, reqs[r].path),
                                !.tmp = 0,
                                !.rec = @ \cup {"RecordRequest"}]]
       /\ UNCHANGED <<config, now, wakeAt, adminCalls, setCalls, lastReq, log>>

\* the lock kept until the handler returns
DelayUnlock_AtReturn(r) == mu

\* the deferred mu.Unlock() of RecordDelay(): it runs when RecordDelay
\* returns
DelayUnlock(r) == Unlock(r)

\* a sleep that returns at once
SleepEnd_NoWait(t, d) == t

\* the instant at which time.Sleep(d), called at t, returns
SleepEnd(t, d) == t + d

\* RecordDelay(), the decision log and the start of time.Sleep(cfg.Delay)
RecordDelay(r) ==
    \/ LockAndLoad(r, "delay", "delaying", stats.DelayedRequests)
    \/ /\ reqs[r].pc = "delaying"
       /\ stats' = [stats EXCEPT !.DelayedRequests = reqs[r].tmp + 1]
       /\ mu' = DelayUnlock(r)
       /\ log' = LogDecision(log, r, DecisionChaos, "Injected latency",
                             [NoMetadata EXCEPT
                                 !.delay_ms = Milliseconds(reqs[r].cfg.Delay),
                                 !.chaos_type = "SLOW_MODE"])
       /\ reqs' = [reqs EXCEPT ![r] =
                      [@ EXCEPT !.pc = "sleeping",
                                !.tmp = 0,
                                !.wake = SleepEnd(now, reqs[r].cfg.Delay),
                                !.rec = @ \cup {"RecordDelay"}]]
       /\ UNCHANGED <<config, now, wakeAt, adminCalls, setCalls, lastReq>>

\* time.Sleep(cfg.Delay) returns
Wake(r) ==
    /\ reqs[r].pc = "sleeping"
    /\ now >= reqs[r].wake
    /\ reqs' = [reqs EXCEPT ![r] = [@ EXCEPT !.pc = "errcheck", !.wake = 0]]
    /\ UNCHANGED <<config, stats, mu, now, wakeAt, adminCalls, setCalls, lastReq, log>>

\* the error stage: the draw, RecordFail() and the synthetic 503
InjectError(r) ==
    \/ /\ reqs[r].pc = "errcheck"
       /\ \E d \in Draws :
             IF ErrorTriggers(reqs[r].cfg, d)
             THEN LockAndLoad(r, "errcheck", "failing", stats.FailedRequests)
             ELSE /\ reqs' = [reqs EXCEPT ![r] = [@ EXCEPT !.pc = "dropcheck"]]
                  /\ UNCHANGED <<config, stats, mu, now, wakeAt,
                                 adminCalls, setCalls, lastReq, log>>
    \/ /\ reqs[r].pc = "failing"
       /\ stats' = [stats EXCEPT !.FailedRequests = reqs[r].tmp + 1]
       /\ mu' = Unlock(r)
       /\ log' = LogDecision(log, r, DecisionChaos, "Injected backend failure",
                             [NoMetadata EXCEPT
                                 !.error_code = StatusServiceUnavailable,
                                 !.chaos_type = "FAIL_BACKEND"])
       /\ reqs' = [reqs EXCEPT ![r] =
                      Reached([@ EXCEPT
                                  !.tmp = 0,
                                  !.resp = Append(@, StatusServiceUnavailable),
                                  !.rec = @ \cup {"RecordFail"}],
                              AfterFail)]
       /\ UNCHANGED <<config, now, wakeAt, adminCalls, setCalls, lastReq>>

\* the drop stage: the draw, RecordDrop() and the synthetic 504
InjectDrop(r) ==
    \/ /\ reqs[r].pc = "dropcheck"
       /\ \E d \in Draws :
             IF DropTriggers(reqs[r].cfg, d)
             THEN LockAndLoad(r, "dropcheck", "dropping", stats.DroppedRequests)
             ELSE /\ reqs' = [reqs EXCEPT ![r] = [@ EXCEPT !.pc = "forward"]]
                  /\ UNCHANGED <<config, stats, mu, now, wakeAt,
                                 adminCalls, setCalls, lastReq, log>>
    \/ /\ reqs[r].pc = "dropping"
       /\ stats' = [stats EXCEPT !.DroppedRequests = reqs[r].tmp + 1]
       /\ mu' = Unlock(r)
       /\ log' = LogDecision(log, r, DecisionChaos, "Dropped request",
                             DropMetadata)
       /\ reqs' = [reqs EXCEPT ![r] =
                      Reached([@ EXCEPT
                                  !.tmp = 0,
                                  !.resp = Append(@, StatusGatewayTimeout),
                                  !.rec = @ \cup {"RecordDrop"}],
                              AfterDrop)]
       /\ UNCHANGED <<config, now, wakeAt, adminCalls, setCalls, lastReq>>

\* next.ServeHTTP(w, r)
Forward(r) ==
    /\ reqs[r].pc = "forward"
    /\ reqs' = [reqs EXCEPT ![r] =
                   Reached([@ EXCEPT !.fwd = Append(@, reqs[r].path)], "done")]
    /\ UNCHANGED <<config, stats, mu, now, wakeAt, adminCalls, setCalls, lastReq, log>>

Middleware(r, workers) ==
    \/ Get(r, workers)
    \/ RecordRequest(r)
    \/ RecordDelay(r)
    \/ Wake(r)
    \/ InjectError(r)
    \/ InjectDrop(r)
    \/ Forward(r)

----------------------------------------------------------------------------
(* Metrics Collector *)

\* the maps made at package initialisation
NewCollector ==
    [requestCount |-> EmptyMap, errorCount |-> EmptyMap,
     droppedCount |-> EmptyMap, rateLimitCount |-> EmptyMap,
     latencies |-> EmptyMap]

\* route + ":" + tenant
Key(route, tenant) == route \o ":" \o tenant

\* the number of samples a key keeps
MaxSamples == 1000

\* the newest sample is the one given up
Evict_Newest(samples) == SubSeq(samples, 1, Len(samples) - 1)

\* latencies[key][1:]
Evict(samples) == SubSeq(samples, 2, Len(samples))

\* RecordLatency(route, tenant, duration), the section under the lock
RecordLatency(mc, route, tenant, duration) ==
    LET key == Key(route, tenant)
        appended == Append(Lookup(mc.latencies, key, <<>>), duration)
    IN  [mc EXCEPT !.latencies =
            Store(@, key, IF Len(appended) > MaxSamples
                          THEN Evict(appended)
                          ELSE appended)]

\* sorted[i], sorted[j] = sorted[j], sorted[i]
Swap(sorted, i, j) == [sorted EXCEPT ![i] = sorted[j], ![j] = sorted[i]]

\* the loops of calculatePercentiles, with indices from 1
RECURSIVE InnerLoop(_, _, _)
InnerLoop(sorted, i, j) ==
    IF j > Len(sorted) THEN sorted
    ELSE InnerLoop(IF sorted[j] < sorted[i] THEN Swap(sorted, i, j) ELSE sorted,
                   i, j + 1)

RECURSIVE OuterLoop(_, _)
OuterLoop(sorted, i) ==
    IF i > Len(sorted) THEN sorted
    ELSE OuterLoop(InnerLoop(sorted, i, i + 1), i + 1)

\* the element at rank ceil(n * pct / 100), counted from 1
Percentile_Ceil(sorted, pct) == sorted[(Len(sorted) * pct + 99) \div 100]

\* sorted[len(sorted)*pct/100], the slice being indexed from 0
Percentile(sorted, pct) == sorted[(Len(sorted) * pct) \div 100 + 1]

calculatePercentiles(durations) ==
    IF Len(durations) = 0 THEN <<0, 0, 0>>
    ELSE LET sorted == OuterLoop(durations, 1) IN
         <<Milliseconds(Percentile(sorted, 50)),
           Milliseconds(Percentile(sorted, 95)),
           Milliseconds(Percentile(sorted, 99))>>

\* GetMetrics(), the section under the read lock
GetMetrics(mc) ==
    [requests_total |-> mc.requestCount,
     errors_total |-> mc.errorCount,
     requests_dropped |-> mc.droppedCount,
     rate_limit_blocks |-> mc.rateLimitCount,
     latency_percentiles |->
        [key \in {k \in DOMAIN mc.latencies : Len(mc.latencies[k]) # 0} |->
            LET p == calculatePercentiles(mc.latencies[key]) IN
            [p50 |-> p[1], p95 |-> p[2], p99 |-> p[3]]]]

\* no metrics query has been answered since the last sample
NoSnapshot == [requests_total |-> EmptyMap]

\* the key the feeder records under
FeedRoute == "/users"
FeedTenant == "tenantA"
FeedKey == Key(FeedRoute, FeedTenant)

\* the orders in which the feeder produces 1ms, 2ms, ..., 100ms, then
\* 101ms, ..., 200ms, and so on: ascending, descending within each
\* hundred, scattered within each hundred
Feeds == {"asc", "desc", "mix"}

\* the k-th sample of a feed
Sample(f, k) ==
    LET i == ((k - 1) % 100) + 1
        block == (k - 1) \div 100
        within == CASE f = "asc" -> i
                    [] f = "desc" -> 101 - i
                    [] f = "mix" -> (i * 37) % 101
    IN  (within + 100 * block) * Millisecond

\* the feeder records its next sample
FeedLatency ==
    /\ Len(fed) < NumSamples
    /\ LET d == Sample(feed, Len(fed) + 1) IN
          /\ metricsCollector' =
                RecordLatency(metricsCollector, FeedRoute, FeedTenant, d)
          /\ fed' = Append(fed, d)
    /\ snapshot' = NoSnapshot
    /\ UNCHANGED <<feed, encoder, status, chaosVars, gatewayVars>>

\* the four maps GetMetrics() puts into its result as they are: the result
\* refers to the collector's own maps
CounterMaps(mc) ==
    [requests_total |-> mc.requestCount,
     errors_total |-> mc.errorCount,
     requests_dropped |-> mc.droppedCount,
     rate_limit_blocks |-> mc.rateLimitCount]

\* the endpoint is not encoding
NotEncoding ==
    [pc |-> "idle", held |-> CounterMaps(NewCollector),
     body |-> CounterMaps(NewCollector)]

\* json.NewEncoder(w).Encode(metrics), after the read lock was released:
\* the maps are read as they are now.  If they were written since the lock
\* was released the read raced with the write: each map is seen as it was
\* or as it is, or the runtime stops the process (concurrent map iteration
\* and map write).
EncodeOutcomes(held, current) ==
    IF held = current THEN {[pc |-> "written", body |-> current]}
    ELSE {[pc |-> "fatal", body |-> CounterMaps(NewCollector)]}
         \cup {[pc |-> "written",
                body |-> [requests_total |-> a, errors_total |-> b,
                          requests_dropped |-> c, rate_limit_blocks |-> d]] :
                  a \in {held.requests_total, current.requests_total},
                  b \in {held.errors_total, current.errors_total},
                  c \in {held.requests_dropped, current.requests_dropped},
                  d \in {held.rate_limit_blocks, current.rate_limit_blocks}}

\* GET /admin/metrics: GetMetrics() under the read lock, then the encoding
\* of its result
MetricsHandler ==
    \/ /\ encoder.pc \in {"idle", "written"}
       /\ \A k \in DOMAIN metricsCollector.latencies :
             Len(metricsCollector.latencies[k]) <= MaxSorted
       /\ snapshot' = GetMetrics(metricsCollector)
       /\ encoder' = [NotEncoding EXCEPT
                         !.pc = "encoding",
                         !.held = CounterMaps(metricsCollector)]
       /\ UNCHANGED <<metricsCollector, fed, feed, status, chaosVars,
                      gatewayVars>>
    \/ /\ encoder.pc = "encoding"
       /\ \E outcome \in EncodeOutcomes(encoder.held,
                                         CounterMaps(metricsCollector)) :
             encoder' = [encoder EXCEPT !.pc = outcome.pc,
                                        !.body = outcome.body]
       /\ UNCHANGED <<metricsCollector, fed, feed, snapshot, status,
                      chaosVars, gatewayVars>>

----------------------------------------------------------------------------
(* The handler chain of /users and /orders around the chaos middleware:    *)
(* Logging, tenant resolution, Metrics, Tracing, the router, tenant        *)
(* resolution, Analytics, the rate limiter, then chaos.Middleware and the  *)
(* backend.  Logging and Tracing leave the request, the response and the   *)
(* state modelled here alone.                                              *)

StatusOK == 200
StatusUnauthorized == 401
StatusTooManyRequests == 429

\* every key that is given resolves to a tenant
Resolve_AnyKey(apiKey) == IF apiKey = "" THEN "" ELSE "tenantA"

\* the mock tenant DB, by API key; "" stands for no tenant
Resolve(apiKey) ==
    CASE apiKey = "sk_test_123" -> "tenantA"
      [] apiKey = "sk_test_456" -> "tenantB"
      [] OTHER -> ""

TenantIDs == {"tenantA"}

\* X-API-Key and X-Tenant-ID of the requests ("" when the header is
\* absent): a client that names a tenant without a key, a client with a key
\* that names no tenant, a client with a key that names its tenant, on
\* either route
Clients ==
    {[path |-> "/users", apiKey |-> "", hdr |-> "tenantA"],
     [path |-> "/users", apiKey |-> "sk_test_123", hdr |-> ""],
     [path |-> "/users", apiKey |-> "sk_test_123", hdr |-> "tenantA"],
     [path |-> "/orders", apiKey |-> "sk_test_123", hdr |-> "tenantA"]}

\* clients of the rate limiter: with a key of the tenant DB, with a key
\* that is not in it, without a key
LimiterClients ==
    {[path |-> "/users", apiKey |-> "sk_test_123", hdr |-> ""],
     [path |-> "/users", apiKey |-> "sk_test_999", hdr |-> ""],
     [path |-> "/users", apiKey |-> "", hdr |-> ""]}

\* the reply redis.Nil, and the reply for a key that holds n
Nil == [present |-> FALSE, val |-> 0]
Tokens(n) == [present |-> TRUE, val |-> n]

\* a key of Redis: absent, or holding val until the instant expires
\* (ZeroTime: the key has no expiry).  passed counts the requests the rate
\* limiter has let through during the life of the key.
NoKey == [present |-> FALSE, val |-> 0, expires |-> ZeroTime, passed |-> 0]
Held(n, expires, passed) ==
    [present |-> TRUE, val |-> n, expires |-> expires, passed |-> passed]

\* the key is there at instant t
Live(k, t) == k.present /\ (k.expires = ZeroTime \/ t < k.expires)

\* GET key
RedisGet(k, t) == IF Live(k, t) THEN Tokens(k.val) ELSE Nil

\* SET key n EX ttl
RedisSet(k, n, ttl, t) == Held(n, t + ttl, IF Live(k, t) THEN k.passed ELSE 0)

\* DECR key: a key that is not there is created, without expiry, as 0 and
\* then decremented
RedisDecr(k, t) ==
    IF Live(k, t) THEN [k EXCEPT !.val = @ - 1]
    ELSE Held(0 - 1, ZeroTime, 0)

\* the request that wrote k is let through
Passing(k) == [k EXCEPT !.passed = @ + 1]

\* strconv.Atoi(tokensStr)
Atoi(reply) == reply.val

\* NewRateLimiter(rdb, 5, time.Minute)
Limit == 5
Refill == 60 * Second

\* strconv.Itoa(sc.statusCode)
Itoa(n) == ToString(n)

NewArrival ==
    [pc |-> "new", path |-> "", apiKey |-> "", hdr |-> "", tenant |-> "",
     start |-> ZeroTime, tokens |-> Nil, statusCode |-> 0, calls |-> {}]

\* the analytics keys: no key is there
NoAnalytics == [req |-> EmptyMap, err |-> EmptyMap, lat |-> EmptyMap]

\* Analytics.RecordRequest(tenantID, path, duration, statusCode): INCR of
\* the request key, SET of the latency key, INCR of the error key
AnalyticsRecord(a, tenantID, path, duration, statusCode) ==
    [req |-> Increment(a.req, tenantID \o ":" \o path),
     lat |-> Store(a.lat, tenantID \o ":" \o path, Milliseconds(duration)),
     err |-> IF statusCode >= 400
             THEN Increment(a.err, tenantID \o ":" \o path)
             ELSE a.err]

\* the labels the Metrics middleware records a request under
Route(r) == PathOf(r)
TenantLabel(r) == IF gw[r].hdr = "" THEN "unknown" ELSE gw[r].hdr

\* RecordRequest(route, tenant, status), the section under the lock
CountRequest(mc, route, tenant, code) ==
    [mc EXCEPT !.requestCount =
        Increment(@, Key(route, tenant) \o ":" \o code)]

\* RecordError(route, tenant), the section under the lock
RecordError(mc, route, tenant) ==
    [mc EXCEPT !.errorCount = Increment(@, Key(route, tenant))]

\* RecordDropped(route, tenant), the section under the lock
RecordDropped(mc, route, tenant) ==
    [mc EXCEPT !.droppedCount = Increment(@, Key(route, tenant))]

\* RecordRateLimit(tenant), the section under the lock
RecordRateLimit(mc, tenant) ==
    [mc EXCEPT !.rateLimitCount = Increment(@, tenant)]

\* only server errors are counted
IsError_ServerOnly(code) == code >= 500

\* sc.statusCode >= 400
IsError(code) == code >= 400

\* a request of one of `clients` arrives: tenant resolution, then Metrics
\* and Analytics take the time and wrap the response writer
Arrive(r, clients) ==
    /\ gw[r].pc = "new"
    /\ \E c \in clients :
          gw' = [gw EXCEPT ![r] =
                    [@ EXCEPT !.pc = "limiter", !.path = c.path,
                              !.apiKey = c.apiKey,
                              !.hdr = c.hdr, !.tenant = Resolve(c.apiKey),
                              !.start = now, !.statusCode = StatusOK]]
    /\ UNCHANGED <<redis, analytics, status, collectorVars, chaosVars>>

\* the handler goes on after the 429
AfterBlock_NoReturn == "chaos"

\* the return after the 429
AfterBlock == "analytics"

\* rl.Middleware: the tenant of the context and redis.Get, then the branch
\* on the reply
RateLimit(r) ==
    \/ /\ gw[r].pc = "limiter"
       /\ gw' = [gw EXCEPT ![r] =
                    IF gw[r].tenant = ""
                    THEN [@ EXCEPT !.pc = "analytics",
                                   !.statusCode = StatusUnauthorized]
                    ELSE [@ EXCEPT !.pc = "limited",
                                   !.tokens =
                                      RedisGet(redis[gw[r].tenant], now)]]
       /\ UNCHANGED <<redis, analytics, status, collectorVars, chaosVars>>
    \/ /\ gw[r].pc = "limited"
       /\ IF gw[r].tokens = Nil
          THEN /\ redis' = [redis EXCEPT ![gw[r].tenant] =
                               Passing(RedisSet(@, Limit - 1, Refill, now))]
               /\ gw' = [gw EXCEPT ![r] = [@ EXCEPT !.pc = "chaos"]]
          ELSE IF Atoi(gw[r].tokens) <= 0
          THEN /\ gw' = [gw EXCEPT ![r] =
                            [@ EXCEPT !.pc = AfterBlock, !.tokens = Nil,
                                      !.statusCode = StatusTooManyRequests]]
               /\ UNCHANGED redis
          ELSE /\ redis' = [redis EXCEPT ![gw[r].tenant] =
                               Passing(RedisDecr(@, now))]
               /\ gw' = [gw EXCEPT ![r] =
                            [@ EXCEPT !.pc = "chaos", !.tokens = Nil]]
       /\ UNCHANGED <<analytics, status, collectorVars, chaosVars>>

\* chaos.Middleware, inside the chain
Chaos(r) ==
    /\ gw[r].pc = "chaos"
    /\ Middleware(r, NumRequests)
    /\ UNCHANGED others

\* chaos.Middleware has returned: the status written by it or, if it called
\* the backend, by the backend
Returns(r) ==
    /\ gw[r].pc = "chaos"
    /\ reqs[r].pc = "done"
    /\ gw' = [gw EXCEPT ![r] =
                 [@ EXCEPT !.pc = "analytics",
                           !.statusCode = IF reqs[r].resp # <<>>
                                          THEN reqs[r].resp[1]
                                          ELSE StatusOK]]
    /\ UNCHANGED <<redis, analytics, status, collectorVars, chaosVars>>

\* analytics.Middleware after next.ServeHTTP: the request is recorded if
\* its context holds a tenant
Analytics(r) ==
    /\ gw[r].pc = "analytics"
    /\ analytics' =
          IF gw[r].tenant # ""
          THEN AnalyticsRecord(analytics, gw[r].tenant, PathOf(r),
                               now - gw[r].start, gw[r].statusCode)
          ELSE analytics
    /\ gw' = [gw EXCEPT ![r] = [@ EXCEPT !.pc = "record"]]
    /\ UNCHANGED <<redis, status, collectorVars, chaosVars>>

\* middleware.Metrics after next.ServeHTTP: RecordRequest, RecordLatency
\* and, for an error status, RecordError
Metrics(r) ==
    /\ \/ /\ gw[r].pc = "record"
          /\ metricsCollector' =
                CountRequest(metricsCollector, Route(r), TenantLabel(r),
                             Itoa(gw[r].statusCode))
          /\ gw' = [gw EXCEPT ![r] =
                       [@ EXCEPT !.pc = "latency",
                                 !.calls = @ \cup {"RecordRequest"}]]
       \/ /\ gw[r].pc = "latency"
          /\ metricsCollector' =
                RecordLatency(metricsCollector, Route(r), TenantLabel(r),
                              now - gw[r].start)
          /\ gw' = [gw EXCEPT ![r] =
                       [@ EXCEPT !.pc = IF IsError(gw[r].statusCode)
                                        THEN "error" ELSE "done",
                                 !.calls = @ \cup {"RecordLatency"}]]
       \/ /\ gw[r].pc = "error"
          /\ metricsCollector' =
                RecordError(metricsCollector, Route(r), TenantLabel(r))
          /\ gw' = [gw EXCEPT ![r] =
                       [@ EXCEPT !.pc = "done",
                                 !.calls = @ \cup {"RecordError"}]]
    /\ UNCHANGED <<redis, analytics, fed, feed, snapshot, encoder, status,
                   chaosVars>>

----------------------------------------------------------------------------
(* The clock *)

AdvanceTime(quantum) ==
    /\ now < wakeAt
    /\ now' = Min(now + quantum, wakeAt)
    /\ now' <= MaxTime
    /\ UNCHANGED <<config, stats, mu, wakeAt, reqs, adminCalls, setCalls, lastReq, log>>

----------------------------------------------------------------------------
(* The gateway process *)

\* the chaos package at the start of the process
ChaosInit ==
    /\ config = ZeroConfig
    /\ stats = ZeroStats
    /\ mu = NoOne
    /\ now = BootTime
    /\ wakeAt = BootTime + SleepInterval
    /\ reqs = [r \in Requests |-> NewRequest]
    /\ adminCalls = 0
    /\ setCalls = 0
    /\ lastReq = [handler |-> "none"]
    /\ log = EmptyMap
    /\ status = NoStatus

\* the collector at the start of the process, its feeder having chosen one
\* of `feeds`
CollectorStart(feeds) ==
    /\ metricsCollector = NewCollector
    /\ fed = <<>>
    /\ feed \in feeds
    /\ snapshot = NoSnapshot
    /\ encoder = NotEncoding

\* no request has arrived; of the rate limiter's keys Redis holds what
\* earlier traffic left in it
GatewayStart(keys) ==
    /\ gw = [r \in Requests |-> NewArrival]
    /\ redis \in [TenantIDs -> keys]
    /\ analytics = NoAnalytics

Init == ChaosInit /\ CollectorStart({"asc"}) /\ GatewayStart({NoKey})

\* requests served concurrently; one administrative call may be a Set
Next ==
    \/ ChaosConfigHandler(Payloads(ChaosRequest), MaxAdmin - 1) /\ UNCHANGED others
    \/ EnableHandler(Payloads(EnableRequest), MaxAdmin - 1) /\ UNCHANGED others
    \/ ChaosRecoverHandler /\ UNCHANGED others
    \/ DisableHandler /\ UNCHANGED others
    \/ AutoRecover /\ UNCHANGED others
    \/ AdvanceTime(Second) /\ UNCHANGED others
    \/ \E r \in Requests : Middleware(r, NumRequests) /\ UNCHANGED others

Spec == Init /\ [][Next]_vars

\* requests served one at a time; a finer clock
TimedNext ==
    \/ ChaosConfigHandler(Payloads(ChaosRequest), MaxAdmin - 1) /\ UNCHANGED others
    \/ EnableHandler(Payloads(EnableRequest), MaxAdmin - 1) /\ UNCHANGED others
    \/ ChaosRecoverHandler /\ UNCHANGED others
    \/ DisableHandler /\ UNCHANGED others
    \/ AutoRecover /\ UNCHANGED others
    \/ AdvanceTime(Second \div 2) /\ UNCHANGED others
    \/ \E r \in Requests : Middleware(r, 1) /\ UNCHANGED others

TimedSpec == Init /\ [][TimedNext]_vars

\* the Go scheduler runs every goroutine that can run, and time passes
LiveSpec ==
    /\ TimedSpec
    /\ WF_vars(AdvanceTime(Second \div 2) /\ UNCHANGED others)
    /\ WF_vars(AutoRecover /\ UNCHANGED others)
    /\ \A r \in Requests : WF_vars(Middleware(r, 1) /\ UNCHANGED others)

\* the collector alone: a feeder of one key, and the metrics query
CollectorInit == ChaosInit /\ CollectorStart(Feeds) /\ GatewayStart({NoKey})

CollectorNext ==
    \/ FeedLatency
    \/ MetricsHandler

CollectorSpec == CollectorInit /\ [][CollectorNext]_vars

\* the whole chain: requests served concurrently, one apply call, no time
\* passes
GatewayInit ==
    /\ ChaosInit
    /\ CollectorStart({"asc"})
    /\ GatewayStart({NoKey, Held(1, BootTime + Refill, Limit - 1)})

GatewayNext ==
    \/ ChaosConfigHandler(Payloads(GatewayChaosRequest), 1) /\ UNCHANGED others
    \/ \E r \in Requests : Arrive(r, Clients)
    \/ \E r \in Requests : RateLimit(r)
    \/ \E r \in Requests : Chaos(r)
    \/ \E r \in Requests : Returns(r)
    \/ \E r \in Requests : Analytics(r)
    \/ \E r \in Requests : Metrics(r)

GatewaySpec == GatewayInit /\ [][GatewayNext]_vars

\* the rate limiter: keys left by earlier traffic that expire in a second,
\* clients with and without a registered key, no chaos configuration
LimiterInit ==
    /\ ChaosInit
    /\ CollectorStart({"asc"})
    /\ GatewayStart({NoKey,
                     Held(1, BootTime + Second, Limit - 1),
                     Held(0, BootTime + Second, Limit)})

LimiterNext ==
    \/ AutoRecover /\ UNCHANGED others
    \/ AdvanceTime(Second) /\ UNCHANGED others
    \/ \E r \in Requests : Arrive(r, LimiterClients)
    \/ \E r \in Requests : RateLimit(r)
    \/ \E r \in Requests : Chaos(r)
    \/ \E r \in Requests : Returns(r)
    \/ \E r \in Requests : Analytics(r)
    \/ \E r \in Requests : Metrics(r)

LimiterSpec == LimiterInit /\ [][LimiterNext]_vars

\* the metrics endpoint scraped while requests are served: no chaos
\* configuration, no time passes; a process stopped by the runtime takes
\* no further step
Running == encoder.pc # "fatal"

ScrapeNext ==
    \/ Running /\ \E r \in Requests : Arrive(r, Clients)
    \/ Running /\ \E r \in Requests : RateLimit(r)
    \/ Running /\ \E r \in Requests : Chaos(r)
    \/ Running /\ \E r \in Requests : Returns(r)
    \/ Running /\ \E r \in Requests : Analytics(r)
    \/ Running /\ \E r \in Requests : Metrics(r)
    \/ Running /\ MetricsHandler

ScrapeSpec == GatewayInit /\ [][ScrapeNext]_vars

\* the administrative surface: bodies of every kind, every call may be a
\* Set, one request
AdminNext ==
    \/ ChaosConfigHandler(Payloads(AnyChaosRequest)
                             \cup Malformed({MalformedChaosRequest}), MaxAdmin)
          /\ UNCHANGED others
    \/ EnableHandler(Payloads(AnyEnableRequest)
                        \cup Malformed({MalformedEnableRequest}), MaxAdmin)
          /\ UNCHANGED others
    \/ ChaosRecoverHandler /\ UNCHANGED others
    \/ DisableHandler /\ UNCHANGED others
    \/ AutoRecover /\ UNCHANGED others
    \/ AdvanceTime(Second) /\ UNCHANGED others
    \/ Middleware(1, 1) /\ UNCHANGED others

AdminSpec == Init /\ [][AdminNext]_vars

\* one status query among administrative calls, scheduler ticks and one
\* request
StatusNext ==
    \/ ChaosConfigHandler(Payloads(StatusChaosRequest), MaxAdmin)
          /\ UNCHANGED others
    \/ EnableHandler(Payloads(StatusEnableRequest), MaxAdmin)
          /\ UNCHANGED others
    \/ ChaosRecoverHandler /\ UNCHANGED others
    \/ DisableHandler /\ UNCHANGED others
    \/ AutoRecover /\ UNCHANGED others
    \/ AdvanceTime(Second) /\ UNCHANGED others
    \/ ChaosStatusHandler /\ UNCHANGED <<collectorVars, gatewayVars>>
    \/ Middleware(1, 1) /\ UNCHANGED others

StatusSpec == Init /\ [][StatusNext]_vars

----------------------------------------------------------------------------
(* Vocabulary of the properties *)

Entered(r) == reqs[r].pc # "new"
Done(r) == reqs[r].pc = "done"
AllDone == \A r \in Requests : Done(r)

\* requests for which the named Record* call has returned
Recorded(call) == {r \in Requests : call \in reqs[r].rec}

\* outcomes of a finished request
PassedThrough(r) == reqs[r].fwd = <<reqs[r].path>> /\ reqs[r].resp = <<>>
Failed503(r) == reqs[r].resp = <<StatusServiceUnavailable>> /\ reqs[r].fwd = <<>>
Dropped504(r) == reqs[r].resp = <<StatusGatewayTimeout>> /\ reqs[r].fwd = <<>>

\* the request's path is in the scope of the snapshot it took
InScope(r) == reqs[r].cfg.Route = "" \/ reqs[r].cfg.Route = reqs[r].path

----------------------------------------------------------------------------
(* C1: no increment is lost.  Under every interleaving of the requests'    *)
(* Record* calls with Set, Clear, Get and the auto-recovery ticks, each    *)
(* counter equals the number of calls of its Record* operation that have   *)
(* returned.                                                               *)
C1_NoLostIncrement ==
    /\ stats.TotalRequests = Cardinality(Recorded("RecordRequest"))
    /\ stats.DelayedRequests = Cardinality(Recorded("RecordDelay"))
    /\ stats.FailedRequests = Cardinality(Recorded("RecordFail"))
    /\ stats.DroppedRequests = Cardinality(Recorded("RecordDrop"))

\* all requests were counted, delayed and failed while the configuration was
\* set and cleared again
C1_Witness ==
    /\ AllDone
    /\ stats.TotalRequests = Cardinality(Requests)
    /\ stats.DelayedRequests = Cardinality(Requests)
    /\ stats.FailedRequests = Cardinality(Requests)
    /\ stats.LastRecoveryTime # ZeroTime

(* C2: a request that has gone through the middleware was counted in       *)
(* totalRequests and ended in exactly one outcome: next called once with   *)
(* no synthetic response, or one synthetic 503, or one synthetic 504, next *)
(* not called.  Once all requests have completed, totalRequests = passed   *)
(* through + failedRequests + droppedRequests = number of requests.        *)
C2_ExactlyOneOutcome ==
    /\ \A r \in Requests :
          Done(r) =>
             /\ "RecordRequest" \in reqs[r].rec
             /\ Len(reqs[r].resp) + Len(reqs[r].fwd) = 1
             /\ PassedThrough(r) \/ Failed503(r) \/ Dropped504(r)
    /\ AllDone =>
          /\ stats.TotalRequests = Cardinality(Requests)
          /\ stats.TotalRequests =
                Cardinality({r \in Requests : PassedThrough(r)})
                   + stats.FailedRequests + stats.DroppedRequests

\* errorRate = 50: of two concurrent requests one is failed, one passes
C2_Witness ==
    /\ AllDone
    /\ \A r \in Requests :
          reqs[r].cfg.Enabled /\ reqs[r].cfg.ErrorRate = 50
             /\ reqs[r].cfg.DropRate = 0
    /\ \E r \in Requests : Failed503(r)
    /\ \E r \in Requests : PassedThrough(r)
    /\ stats.FailedRequests + 1 = stats.TotalRequests

(* C3: when every request that entered saw enabled = false, the dropped,   *)
(* failed and delayed counters are not incremented, every finished         *)
(* request was handed unmodified to the backend stage, and totalRequests   *)
(* is incremented once per request.                                        *)
C3_DisabledPassThrough ==
    (\A r \in Requests : Entered(r) => ~reqs[r].cfg.Enabled) =>
       /\ stats.DroppedRequests = 0
       /\ stats.FailedRequests = 0
       /\ stats.DelayedRequests = 0
       /\ \A r \in Requests :
             Done(r) => PassedThrough(r) /\ reqs[r].rec = {"RecordRequest"}
       /\ stats.TotalRequests = Cardinality(Recorded("RecordRequest"))
       /\ AllDone => stats.TotalRequests = Cardinality(Requests)

\* all requests went through a disabled middleware
C3_Witness ==
    /\ AllDone
    /\ \A r \in Requests : ~reqs[r].cfg.Enabled /\ PassedThrough(r)
    /\ stats.TotalRequests = Cardinality(Requests)

\* the snapshot forces a failure: errorRate = 100, dropRate = 0, delay = 0
ForcedFailure(cfg) ==
    cfg.Enabled /\ cfg.ErrorRate = 100 /\ cfg.DropRate = 0 /\ cfg.Delay = 0

\* the snapshot forces a drop: dropRate = 100, errorRate = 0, delay = 0
ForcedDrop(cfg) ==
    cfg.Enabled /\ cfg.DropRate = 100 /\ cfg.ErrorRate = 0 /\ cfg.Delay = 0

(* C4: a matching request that saw enabled, errorRate = 100, dropRate = 0, *)
(* delay = 0 ends with the synthetic 503 and no backend call, having       *)
(* called RecordFail and neither RecordDrop nor RecordDelay; when all      *)
(* requests that entered are such requests, failedRequests is the number   *)
(* of finished requests and droppedRequests is unchanged.                  *)
C4_ForcedFailure ==
    /\ \A r \in Requests :
          Done(r) /\ ForcedFailure(reqs[r].cfg) /\ InScope(r) =>
             /\ Failed503(r)
             /\ reqs[r].rec = {"RecordRequest", "RecordFail"}
    /\ (\A r \in Requests :
           Entered(r) => ForcedFailure(reqs[r].cfg) /\ InScope(r)) =>
          /\ stats.FailedRequests = Cardinality({r \in Requests : Done(r)})
          /\ stats.DroppedRequests = 0

\* all requests were failed by a forced-failure configuration
C4_Witness ==
    /\ AllDone
    /\ \A r \in Requests :
          ForcedFailure(reqs[r].cfg) /\ InScope(r) /\ Failed503(r)
    /\ stats.FailedRequests = Cardinality(Requests)

(* C5: a matching request that saw enabled, dropRate = 100, errorRate = 0, *)
(* delay = 0 ends with the synthetic 504 and no backend call, having       *)
(* called RecordDrop and neither RecordFail nor RecordDelay; when all      *)
(* requests that entered are such requests, droppedRequests is the number  *)
(* of finished requests and failedRequests is unchanged.                   *)
C5_ForcedDrop ==
    /\ \A r \in Requests :
          Done(r) /\ ForcedDrop(reqs[r].cfg) /\ InScope(r) =>
             /\ Dropped504(r)
             /\ reqs[r].rec = {"RecordRequest", "RecordDrop"}
    /\ (\A r \in Requests :
           Entered(r) => ForcedDrop(reqs[r].cfg) /\ InScope(r)) =>
          /\ stats.DroppedRequests = Cardinality({r \in Requests : Done(r)})
          /\ stats.FailedRequests = 0

\* all requests were dropped by a forced-drop configuration
C5_Witness ==
    /\ AllDone
    /\ \A r \in Requests :
          ForcedDrop(reqs[r].cfg) /\ InScope(r) /\ Dropped504(r)
    /\ stats.DroppedRequests = Cardinality(Requests)

(* C6: under a snapshot with route = "/users" and errorRate = 100, a       *)
(* request to /orders is handed unmodified to the backend and calls only   *)
(* RecordRequest, and a request to /users is failed with the synthetic     *)
(* 503.                                                                    *)
C6_RouteScoping ==
    \A r \in Requests :
       (/\ Done(r)
        /\ reqs[r].cfg.Enabled
        /\ reqs[r].cfg.Route = "/users"
        /\ reqs[r].cfg.ErrorRate = 100) =>
          /\ reqs[r].path = "/orders" =>
                PassedThrough(r) /\ reqs[r].rec = {"RecordRequest"}
          /\ reqs[r].path = "/users" =>
                Failed503(r) /\ "RecordFail" \in reqs[r].rec

\* under one route-scoped configuration the /users request was failed and
\* the /orders request passed
C6_Witness ==
    /\ \A r \in Requests :
          /\ Done(r)
          /\ reqs[r].cfg.Enabled
          /\ reqs[r].cfg.Route = "/users"
          /\ reqs[r].cfg.ErrorRate = 100
    /\ \E r \in Requests : reqs[r].path = "/users" /\ Failed503(r)
    /\ \E r \in Requests : reqs[r].path = "/orders" /\ PassedThrough(r)
    /\ stats.FailedRequests = 1 /\ stats.TotalRequests = 2

----------------------------------------------------------------------------
(* Vocabulary of the timed properties *)

\* the handler of request r returns in this step
Finishes(r) == reqs[r].pc # "done" /\ reqs'[r].pc = "done"

\* request r enters the handler in this step
Enters(r) == reqs[r].pc = "new" /\ reqs'[r].pc = "entered"

\* one iteration of the auto-recovery goroutine is this step
Ticks == wakeAt' # wakeAt

\* Clear() is called by an administrative handler in this step
Clears ==
    /\ adminCalls' = adminCalls + 1
    /\ lastReq'.handler \in {"ChaosRecoverHandler", "DisableHandler"}

SetHandlers == {"ChaosConfigHandler", "EnableHandler"}

\* the duration of the administrative call served last
DurationOf(req) ==
    IF req.handler = "ChaosConfigHandler" THEN req.body.DurationSec
    ELSE req.body.Duration

\* the only administrative call so far applied durationSec = 1 and
\* errorRate = 100 (no delay, no drop); it was served at SetTime
ExpiryScenario ==
    /\ adminCalls = 1
    /\ lastReq.handler = "ChaosConfigHandler"
    /\ lastReq.body.DurationSec = 1
    /\ lastReq.body.FailBackend
    /\ lastReq.body.SlowMs = 0
    /\ lastReq.body.DropPercent = 0

SetTime == stats.LastInjectionTime

\* the request's path is in the scope of the scenario's route
ScenarioScope(r) == lastReq.body.Route \in {"", PathOf(r)}

\* request r entered d after the set, lo < d < hi or d = at
SentBetween(r, lo, hi) ==
    reqs[r].t0 - SetTime > lo /\ reqs[r].t0 - SetTime < hi
SentAt(r, at) == reqs[r].t0 - SetTime = at

\* the configuration in place is enabled, has expiresAt set and the time
\* is past it
PastExpiry ==
    config.Enabled /\ config.ExpiresAt # ZeroTime /\ now > config.ExpiresAt

Counters(st) ==
    <<st.TotalRequests, st.DroppedRequests, st.FailedRequests,
      st.DelayedRequests>>

----------------------------------------------------------------------------
(* C7, as claimed: after a set with durationSec = 1 and errorRate = 100    *)
(* a request sent within the first second is failed, and a request sent    *)
(* 1.5 s after the set passes through unmodified and enabled reads false.  *)
C7_Original ==
    [][\A r \in Requests :
          (ExpiryScenario /\ ExpiryScenario' /\ ScenarioScope(r) /\ Finishes(r)) =>
             /\ SentBetween(r, 0, Second) => Failed503(r)'
             /\ SentAt(r, 1500 * Millisecond) =>
                   PassedThrough(r)' /\ ~config'.Enabled]_vars

(* C7, amended: after a set with durationSec = 1 and errorRate = 100 and   *)
(* no other administrative call, a request sent within the first second    *)
(* is failed; the configuration stays enabled until the first tick of the  *)
(* scheduler later than 1 s after the set, which comes at most 2 s after   *)
(* the set; from that tick on enabled reads false, and a request sent      *)
(* after it takes the disabled configuration and passes through            *)
(* unmodified.                                                             *)
C7_Amended ==
    /\ [][\A r \in Requests :
             (ExpiryScenario /\ ExpiryScenario' /\ ScenarioScope(r)) =>
                /\ Finishes(r) /\ SentBetween(r, 0, Second) => Failed503(r)'
                /\ Finishes(r) /\ ~reqs[r].cfg.Enabled => PassedThrough(r)'
                /\ Enters(r) /\ stats.LastRecoveryTime # ZeroTime =>
                      reqs'[r].cfg = ZeroConfig]_vars
    /\ [](ExpiryScenario =>
             /\ stats.LastRecoveryTime # ZeroTime => ~config.Enabled
             /\ config.Enabled => now <= SetTime + 2 * Second
             /\ now <= SetTime + Second => config.Enabled)

\* the first request, sent half a second after the set, was failed; the
\* second, sent after the tick that observed expiry, passed
C7_Witness ==
    /\ ExpiryScenario
    /\ AllDone
    /\ Failed503(1)
    /\ PassedThrough(2)
    /\ ~reqs[2].cfg.Enabled
    /\ stats.LastRecoveryTime > SetTime + Second
    /\ ~config.Enabled

(* C8: an enabled configuration with expiresAt set is replaced by the zero *)
(* value, lastRecoveryTime being stamped and the counters kept, by the     *)
(* first tick of the scheduler at which the time is past expiresAt; it is  *)
(* never in place later than one tick interval after expiresAt, and under  *)
(* a fair scheduler it is eventually gone.                                 *)
C8_AutoRecovery ==
    /\ [][(Ticks /\ PastExpiry) =>
             /\ config' = ZeroConfig
             /\ stats'.LastRecoveryTime = now
             /\ stats'.LastInjectionTime = stats.LastInjectionTime
             /\ Counters(stats') = Counters(stats)]_vars
    /\ [][(Ticks /\ ~PastExpiry) =>
             config' = config /\ stats' = stats]_vars
    /\ [](config.Enabled /\ config.ExpiresAt # ZeroTime =>
             now <= config.ExpiresAt + SleepInterval)
    /\ ((/\ config.Enabled
         /\ config.ExpiresAt # ZeroTime
         /\ config.ExpiresAt + SleepInterval <= MaxTime) ~> ~config.Enabled)

\* the scheduler cleared an expired configuration, a full tick interval
\* after its expiry, with no recover call
C8_Witness ==
    /\ ~config.Enabled
    /\ lastReq.handler \in SetHandlers
    /\ DurationOf(lastReq) = 1
    /\ stats.LastRecoveryTime = stats.LastInjectionTime + Second + SleepInterval
    /\ stats.TotalRequests > 0

C10_IdempotentClear ==
    [][(Clears /\ ~config.Enabled) =>
          /\ config' = config
          /\ ~config'.Enabled
          /\ stats'.LastRecoveryTime = now
          /\ stats'.LastInjectionTime = stats.LastInjectionTime
          /\ Counters(stats') = Counters(stats)]_vars

\* two recover calls in a row, the second later than the first, after
\* requests were counted
C10_Witness ==
    /\ adminCalls = 2
    /\ setCalls = 0
    /\ stats.LastRecoveryTime = now
    /\ now > BootTime
    /\ stats.TotalRequests = Cardinality(Requests)
    /\ ~config.Enabled

----------------------------------------------------------------------------
(* Vocabulary of the counter properties *)

\* an administrative handler is served in this step
AdminStep == adminCalls' = adminCalls + 1

\* the place in Counters of the counter each Record* call increments
CounterOf(call) ==
    CASE call = "RecordRequest" -> 1
      [] call = "RecordDrop" -> 2
      [] call = "RecordFail" -> 3
      [] call = "RecordDelay" -> 4

RecordCalls == {"RecordRequest", "RecordDrop", "RecordFail", "RecordDelay"}

\* the named Record* call of request r returns in this step
RecordReturns(r, call) ==
    call \notin reqs[r].rec /\ reqs'[r].rec = reqs[r].rec \cup {call}

(* C11: the four counters never decrease; a step of an administrative      *)
(* handler (Set or Clear) and a tick of the scheduler, recovering or not,  *)
(* leave all four unchanged; a step that changes them is the return of one *)
(* Record* call of one request, and it adds exactly 1 to that call's own   *)
(* counter and nothing to the other three.                                 *)
C11_CountersFrame ==
    /\ [][\A i \in 1 .. 4 : Counters(stats')[i] >= Counters(stats)[i]]_vars
    /\ [][(AdminStep \/ Ticks) => Counters(stats') = Counters(stats)]_vars
    /\ [][Counters(stats') # Counters(stats) =>
             \E r \in Requests : \E call \in RecordCalls :
                /\ RecordReturns(r, call)
                /\ Counters(stats') =
                      [Counters(stats) EXCEPT ![CounterOf(call)] = @ + 1]]_vars

\* requests were counted and failed, then the configuration that failed
\* them was cleared by a recover call while the counters stood
C11_Witness ==
    /\ AllDone
    /\ stats.TotalRequests = Cardinality(Requests)
    /\ stats.FailedRequests = Cardinality(Requests)
    /\ adminCalls = 2
    /\ setCalls = 1
    /\ ~config.Enabled
    /\ stats.LastRecoveryTime > stats.LastInjectionTime

----------------------------------------------------------------------------
(* Vocabulary of the administrative properties *)

\* POST /admin/chaos is served in this step with a payload that decodes
Applies ==
    /\ AdminStep
    /\ lastReq'.handler = "ChaosConfigHandler"
    /\ lastReq'.payload = "ok"

\* an apply or legacy enable call is served in this step with a payload that
\* cannot be parsed
ServesMalformed ==
    /\ AdminStep
    /\ lastReq'.handler \in SetHandlers
    /\ lastReq'.payload # "ok"

(* C12, as claimed: an apply call with fields (failBackend, slowMs,         *)
(* dropPercent, durationSec, route) stores exactly enabled = true,         *)
(* errorRate = 100 if failBackend else 0, delay = slowMs milliseconds,     *)
(* dropRate = dropPercent, routeFilter = route, and expiresAt = now +      *)
(* durationSec seconds if durationSec > 0 else none, whatever the          *)
(* configuration in place before.                                          *)
C12_Original ==
    [][Applies =>
          LET b == lastReq'.body IN
          config' =
             [Enabled |-> TRUE,
              ErrorRate |-> IF b.FailBackend THEN 100 ELSE 0,
              Delay |-> b.SlowMs * Millisecond,
              DropRate |-> b.DropPercent,
              Route |-> b.Route,
              ExpiresAt |-> IF b.DurationSec > 0
                            THEN now + b.DurationSec * Second
                            ELSE ZeroTime]]_vars

(* C12, amended: as claimed, except that delay = slowMs milliseconds only  *)
(* if slowMs > 0 and dropRate = dropPercent only if dropPercent > 0; a     *)
(* negative slowMs or dropPercent is stored as 0.  The stored value        *)
(* depends on the body and the time of the call alone, so no field of the  *)
(* configuration in place before survives.                                 *)
C12_Amended ==
    [][Applies =>
          LET b == lastReq'.body IN
          config' =
             [Enabled |-> TRUE,
              ErrorRate |-> IF b.FailBackend THEN 100 ELSE 0,
              Delay |-> IF b.SlowMs > 0 THEN b.SlowMs * Millisecond ELSE 0,
              DropRate |-> IF b.DropPercent > 0 THEN b.DropPercent ELSE 0,
              Route |-> b.Route,
              ExpiresAt |-> IF b.DurationSec > 0
                            THEN now + b.DurationSec * Second
                            ELSE ZeroTime]]_vars

\* a request was failed under a configuration with a route and an expiry;
\* before that expiry a second apply call, with negative numbers and no
\* route, replaced it: nothing of the first is left
C12_Witness ==
    /\ Done(1)
    /\ Failed503(1)
    /\ reqs[1].cfg.Route = "/users"
    /\ reqs[1].cfg.ExpiresAt # ZeroTime
    /\ now < reqs[1].cfg.ExpiresAt
    /\ setCalls = 2
    /\ lastReq.handler = "ChaosConfigHandler"
    /\ lastReq.payload = "ok"
    /\ lastReq.body.SlowMs < 0
    /\ lastReq.body.DropPercent < 0
    /\ lastReq.body.DurationSec < 0
    /\ config = [ZeroConfig EXCEPT !.Enabled = TRUE]

(* C13, as claimed: after any sequence of administrative calls with any    *)
(* integer inputs the stored errorRate and dropRate are within 0 .. 100.   *)
C13_RangeChecked ==
    /\ config.ErrorRate \in 0 .. 100
    /\ config.DropRate \in 0 .. 100

(* C14, as claimed: an apply or legacy enable call whose payload cannot be *)
(* parsed leaves the configuration and the stats exactly as they were.     *)
C14_MalformedRejected ==
    [][ServesMalformed => config' = config /\ stats' = stats]_vars

----------------------------------------------------------------------------
(* Vocabulary of the status properties *)

\* the two steps of the status query
StatusGets == status.pc = "idle" /\ status'.pc = "got"
StatusResponds == status.pc = "got" /\ status'.pc = "done"

\* stats of a process on which no Set and no Clear was ever called
NeverConfigured(st) ==
    st.LastInjectionTime = ZeroTime /\ st.LastRecoveryTime = ZeroTime

\* what every status response satisfies, whatever the counters
StatusFlags(re) ==
    /\ re.IsRecovered <=>
          (~re.Enabled /\ re.Stats.LastRecoveryTime # ZeroTime)
    /\ re.Enabled = re.Config.Enabled
    /\ NeverConfigured(re.Stats) =>
          re.Config = ZeroConfig /\ ~re.IsRecovered
    /\ re.Enabled => ~re.IsRecovered
    /\ (~re.Enabled /\ re.Stats.LastRecoveryTime # ZeroTime) => re.IsRecovered

(* C15, as claimed: the status response has isRecovered = (not enabled and *)
(* lastRecoveryTime set); before any chaos was configured it reports       *)
(* enabled = false, all four counters 0 and isRecovered = false; while     *)
(* enabled, isRecovered = false; after a clear or an auto-recovery,        *)
(* isRecovered = true.                                                     *)
C15_Original ==
    status.pc = "done" =>
       /\ StatusFlags(status.resp)
       /\ NeverConfigured(status.resp.Stats) =>
             Counters(status.resp.Stats) = <<0, 0, 0, 0>>

(* C15, amended: the query is never refused (it only waits for the lock);  *)
(* it reports the configuration read by Get and the stats read by          *)
(* GetStats, with isRecovered = (not enabled and lastRecoveryTime set);    *)
(* before any chaos was configured it reports enabled = false,             *)
(* isRecovered = false, droppedRequests = failedRequests =                 *)
(* delayedRequests = 0 and totalRequests = the number of requests counted  *)
(* so far, which is 0 only if no request was served; while enabled,        *)
(* isRecovered = false; after a clear or an auto-recovery that leaves the  *)
(* configuration disabled, isRecovered = true.                             *)
C15_Amended ==
    /\ [][StatusGets => status'.cfg = config]_vars
    /\ [][StatusResponds =>
             /\ status'.resp.Config = status.cfg
             /\ status'.resp.Stats = stats
             /\ stats.TotalRequests = Cardinality(Recorded("RecordRequest"))]_vars
    /\ [](status.pc = "done" =>
             /\ StatusFlags(status.resp)
             /\ NeverConfigured(status.resp.Stats) =>
                   /\ status.resp.Stats.DroppedRequests = 0
                   /\ status.resp.Stats.FailedRequests = 0
                   /\ status.resp.Stats.DelayedRequests = 0
                   /\ status.resp.Stats.TotalRequests
                         <= Cardinality(Recorded("RecordRequest")))
    /\ [](status.pc # "done" /\ mu = NoOne => ENABLED ChaosStatusHandler)

\* a query made after the scheduler cleared an expired configuration under
\* which a request was failed: isRecovered is true and the counters stand
C15_Witness ==
    /\ status.pc = "done"
    /\ status.resp.IsRecovered
    /\ ~status.resp.Enabled
    /\ adminCalls = 1
    /\ setCalls = 1
    /\ status.resp.Stats.LastRecoveryTime > status.resp.Stats.LastInjectionTime
    /\ status.resp.Stats.TotalRequests = 1
    /\ status.resp.Stats.FailedRequests = 1

----------------------------------------------------------------------------
(* Vocabulary of the collector properties *)

\* the sample buffer of the feeder's key
Buffer == Lookup(metricsCollector.latencies, FeedKey, <<>>)

\* the last n of the samples recorded so far, in arrival order
MostRecent(n) == SubSeq(fed, Len(fed) - n + 1, Len(fed))

(* C17: after any number of RecordLatency calls for one key the buffer     *)
(* holds the most recently recorded samples in arrival order, all of them  *)
(* up to 1000 and the last 1000 beyond; after 1500 records exactly 1000    *)
(* remain and they are the 501st to the 1500th.                            *)
C17_BoundedBuffer ==
    /\ Len(Buffer) = Min(Len(fed), 1000)
    /\ Buffer = MostRecent(Len(Buffer))
    /\ Len(fed) = 1500 =>
          Len(Buffer) = 1000 /\ Buffer = SubSeq(fed, 501, 1500)

\* 1500 samples were recorded: the buffer starts with the 501st and ends
\* with the last
C17_Witness ==
    /\ Len(fed) = 1500
    /\ Len(Buffer) = 1000
    /\ Buffer[1] = fed[501]
    /\ Buffer[1] # fed[1]
    /\ Buffer[1000] = fed[1500]

\* the samples recorded are 1ms, 2ms, ..., 100ms, in some order
HundredSamples ==
    /\ Len(fed) = 100
    /\ {fed[i] : i \in 1 .. 100} = {v * Millisecond : v \in 1 .. 100}

(* C18, as claimed: a snapshot taken when the samples 1ms, 2ms, ..., 100ms *)
(* have been recorded for one key gives p50 = 50, p95 = 95 and p99 = 99    *)
(* for that key.                                                           *)
C18_Percentiles ==
    (HundredSamples /\ snapshot # NoSnapshot) =>
       /\ snapshot.latency_percentiles[FeedKey].p50 = 50
       /\ snapshot.latency_percentiles[FeedKey].p95 = 95
       /\ snapshot.latency_percentiles[FeedKey].p99 = 99

----------------------------------------------------------------------------
(* Vocabulary of the properties of the handler chain *)

\* the Metrics middleware of request r has returned
Served(r) == gw[r].pc = "done"
AllServed == \A r \in Requests : Served(r)

\* requests for which the named call of the Metrics middleware has returned
Called(call) == {r \in Requests : call \in gw[r].calls}

\* the keys request r is recorded under
KeyOf(r) == Key(Route(r), TenantLabel(r))
RequestKeyOf(r) == KeyOf(r) \o ":" \o Itoa(gw[r].statusCode)

\* the status codes the chain answers with
Statuses ==
    {StatusOK, StatusUnauthorized, StatusTooManyRequests,
     StatusServiceUnavailable, StatusGatewayTimeout}

\* requests answered 504 by the chaos middleware, 429 by the rate limiter
DroppedByChaos == {r \in Requests : Served(r) /\ Dropped504(r)}
RateLimited ==
    {r \in Requests : Served(r) /\ gw[r].statusCode = StatusTooManyRequests}

RECURSIVE SumOver(_, _)
SumOver(m, keys) ==
    IF keys = {} THEN 0
    ELSE LET k == CHOOSE x \in keys : TRUE IN
         Lookup(m, k, 0) + SumOver(m, keys \ {k})

(* C16: every request for which the Metrics middleware has returned has    *)
(* made exactly one RecordRequest and one RecordLatency call, and one      *)
(* RecordError call if and only if its status is >= 400; each entry of     *)
(* requestCount, each sample buffer and each entry of errorCount counts    *)
(* the calls made under its key and nothing else; so once all requests     *)
(* have completed, errorCount(route, tenant) is the sum of                 *)
(* requestCount(route, tenant, s) over the statuses s >= 400.              *)
C16_MetricsAccounting ==
    /\ \A r \in Requests :
          /\ gw[r].pc \notin {"new", "limiter"} => gw[r].statusCode \in Statuses
          /\ Served(r) =>
                gw[r].calls =
                   {"RecordRequest", "RecordLatency"}
                      \cup (IF gw[r].statusCode >= 400
                            THEN {"RecordError"} ELSE {})
    /\ \A k \in DOMAIN metricsCollector.requestCount
                 \cup {RequestKeyOf(r) : r \in Called("RecordRequest")} :
          Lookup(metricsCollector.requestCount, k, 0) =
             Cardinality({r \in Called("RecordRequest") : RequestKeyOf(r) = k})
    /\ \A k \in DOMAIN metricsCollector.latencies
                 \cup {KeyOf(r) : r \in Called("RecordLatency")} :
          Len(Lookup(metricsCollector.latencies, k, <<>>)) =
             Cardinality({r \in Called("RecordLatency") : KeyOf(r) = k})
    /\ \A k \in DOMAIN metricsCollector.errorCount
                 \cup {KeyOf(r) : r \in Called("RecordError")} :
          Lookup(metricsCollector.errorCount, k, 0) =
             Cardinality({r \in Called("RecordError") : KeyOf(r) = k})
    /\ AllServed =>
          \A r \in Requests :
             Lookup(metricsCollector.errorCount, KeyOf(r), 0) =
                SumOver(metricsCollector.requestCount,
                        {KeyOf(r) \o ":" \o Itoa(s) :
                            s \in {c \in Statuses : c >= 400}})

\* two requests of one tenant under one key: the first took the last token
\* and was answered 200, the second was answered 429
C16_Witness ==
    /\ AllServed
    /\ KeyOf(1) = KeyOf(2)
    /\ {gw[1].statusCode, gw[2].statusCode} = {StatusOK, StatusTooManyRequests}
    /\ Len(metricsCollector.latencies[KeyOf(1)]) = 2
    /\ metricsCollector.errorCount[KeyOf(1)] = 1
    /\ DOMAIN metricsCollector.requestCount =
          {KeyOf(1) \o ":200", KeyOf(1) \o ":429"}

(* C19, as claimed: droppedCount of a (route, tenant) key is the number of *)
(* completed requests of that key that the chaos middleware dropped with   *)
(* the synthetic 504, so that droppedCount summed over all keys is the     *)
(* number of requests dropped by chaos.                                    *)
C19_DroppedCounted ==
    /\ \A r \in DroppedByChaos :
          Lookup(metricsCollector.droppedCount, KeyOf(r), 0) =
             Cardinality({q \in DroppedByChaos : KeyOf(q) = KeyOf(r)})
    /\ SumOver(metricsCollector.droppedCount,
               DOMAIN metricsCollector.droppedCount)
          = Cardinality(DroppedByChaos)

(* C20, as claimed: rateLimitBlockCount of a tenant is the number of       *)
(* completed requests of that tenant that the rate limiter rejected with   *)
(* 429.                                                                    *)
C20_RateLimitCounted ==
    \A t \in TenantIDs :
       Lookup(metricsCollector.rateLimitCount, t, 0) =
          Cardinality({r \in RateLimited : gw[r].tenant = t})

----------------------------------------------------------------------------
(* Vocabulary of the decision log and of the stages *)

\* the number of events tagged RECOVERY, and of SLOW_MODE events of
\* request r that carry the delay of its snapshot
RecoveryEvents(l) ==
    SumOver(l, {e \in DOMAIN l :
                   "RECOVERY" \in {e.metadata.action, e.metadata.chaos_type}})
SlowModeEvents(l, r) ==
    SumOver(l, {e \in DOMAIN l :
                   /\ e.req = r
                   /\ e.decision = DecisionChaos
                   /\ e.metadata.chaos_type = "SLOW_MODE"
                   /\ e.metadata.delay_ms = Milliseconds(reqs[r].cfg.Delay)})

\* the snapshot of request r injects on r's path, with a delay
Matches(r) == reqs[r].cfg.Enabled /\ InScope(r)
Delays(r) == Matches(r) /\ reqs[r].cfg.Delay > 0

\* the positions of the handler
BeforeDelay == {"new", "entered", "recording", "delay", "delaying"}
ErrorStage == {"errcheck", "failing"}
DropStage == {"dropcheck", "dropping"}
UnderLock == {"recording", "delaying", "failing", "dropping"}

\* the auto-recovery goroutine clears the configuration in this step
SchedulerClears == Ticks /\ config.Enabled /\ ~config'.Enabled

\* POST /admin/chaos/recover is served in this step
ManualRecover ==
    adminCalls' = adminCalls + 1 /\ lastReq'.handler = "ChaosRecoverHandler"

(* C27, as claimed: every recovery is logged.  A step in which the         *)
(* auto-recovery goroutine clears an expired configuration, like a step    *)
(* that serves a manual recover call, adds one event tagged RECOVERY to    *)
(* the decision log.                                                       *)
C27_RecoveryLogged ==
    [][(SchedulerClears \/ ManualRecover) =>
          RecoveryEvents(log') = RecoveryEvents(log) + 1]_vars

(* C28: the stages of a request come in the order delay, error, drop.  A   *)
(* request at the error or drop stage whose snapshot has delay > 0 has     *)
(* had its delay counted and its sleep is over; a request at the drop      *)
(* stage was not failed; a request at or before the delay stage was        *)
(* neither failed nor dropped.  So no request is counted both in           *)
(* failedRequests and in droppedRequests, while it may be counted in       *)
(* delayedRequests together with either.                                   *)
C28_StageOrder ==
    /\ \A r \in Requests :
          /\ ~({"RecordFail", "RecordDrop"} \subseteq reqs[r].rec)
          /\ reqs[r].pc \in BeforeDelay \cup {"sleeping"} =>
                reqs[r].rec \cap {"RecordFail", "RecordDrop"} = {}
          /\ reqs[r].pc \in ErrorStage \cup DropStage /\ Delays(r) =>
                "RecordDelay" \in reqs[r].rec /\ reqs[r].wake = 0
          /\ reqs[r].pc \in DropStage => "RecordFail" \notin reqs[r].rec
          /\ Failed503(r) => "RecordDrop" \notin reqs[r].rec
          /\ Dropped504(r) => "RecordFail" \notin reqs[r].rec
    /\ stats.FailedRequests + stats.DroppedRequests <= stats.TotalRequests

\* a request was delayed, not failed, and then dropped, the request on the
\* other route went through
C28_Witness ==
    /\ AllDone
    /\ \E r, q \in Requests :
          /\ reqs[r].rec = {"RecordRequest", "RecordDelay", "RecordDrop"}
          /\ Dropped504(r)
          /\ reqs[q].cfg = reqs[r].cfg
          /\ PassedThrough(q)
    /\ stats.DelayedRequests = 1
    /\ stats.FailedRequests = 0
    /\ stats.DroppedRequests = 1

(* C29: a request whose snapshot is enabled, matches its path and has      *)
(* delay > 0 is counted in delayedRequests exactly once, and its SLOW_MODE *)
(* event is emitted once, before the suspension starts; it is handed to    *)
(* the backend, or answered, no sooner than delay after it entered; a      *)
(* request whose snapshot is disabled, does not match or has no delay is   *)
(* never counted in delayedRequests.                                       *)
C29_DelayOnce ==
    /\ [](/\ stats.DelayedRequests = Cardinality(Recorded("RecordDelay"))
          /\ \A r \in Requests :
                /\ Delays(r) /\ reqs[r].pc \notin BeforeDelay =>
                      /\ "RecordDelay" \in reqs[r].rec
                      /\ SlowModeEvents(log, r) = 1
                /\ reqs[r].pc \in BeforeDelay \/ ~Delays(r) =>
                      /\ "RecordDelay" \notin reqs[r].rec
                      /\ SlowModeEvents(log, r) = 0
                /\ reqs[r].pc = "sleeping" =>
                      reqs[r].fwd = <<>> /\ reqs[r].resp = <<>>)
    /\ [][\A r \in Requests :
             Finishes(r) /\ Delays(r) =>
                now >= reqs[r].t0 + reqs[r].cfg.Delay]_vars

\* a matching request was delayed by 500ms and then handed to the backend;
\* a request on the other route went through without delay
C29_Witness ==
    /\ AllDone
    /\ \E r, q \in Requests :
          /\ Delays(r) /\ reqs[r].cfg.Delay = 500 * Millisecond
          /\ reqs[r].rec = {"RecordRequest", "RecordDelay"}
          /\ PassedThrough(r)
          /\ reqs[q].cfg.Enabled /\ ~InScope(q)
          /\ reqs[q].rec = {"RecordRequest"}
          /\ PassedThrough(q)
    /\ stats.DelayedRequests = 1

(* C30: a request suspended in the injected delay does not hold the        *)
(* Controller lock; the lock is held only by a request inside one of its   *)
(* Record* calls, which can always finish that call; and whenever nobody   *)
(* is inside a Record* call, every other request can take its next step    *)
(* and Set, Clear, Get, GetStats and the scheduler tick can run, whoever   *)
(* is asleep.                                                              *)
C30_NoLockWhileSuspended ==
    /\ \A r \in Requests :
          /\ reqs[r].pc = "sleeping" => mu # r
          /\ mu = r <=> reqs[r].pc \in UnderLock
          /\ mu = r => ENABLED Middleware(r, NumRequests)
    /\ (\E r \in Requests : reqs[r].pc = "sleeping") /\ mu = NoOne =>
          /\ \A q \in Requests :
                reqs[q].pc \notin {"sleeping", "done"} =>
                   ENABLED Middleware(q, NumRequests)
          /\ adminCalls < MaxAdmin =>
                /\ ENABLED ChaosRecoverHandler
                /\ ENABLED DisableHandler
                /\ ENABLED ChaosConfigHandler(Payloads(ChaosRequest), MaxAdmin)
                /\ ENABLED EnableHandler(Payloads(EnableRequest), MaxAdmin)
          /\ status.pc # "done" => ENABLED ChaosStatusHandler
          /\ now >= wakeAt => ENABLED AutoRecover

\* while one request is asleep the other is inside a Record* call, and the
\* configuration the sleeper saw has been cleared
C30_Witness ==
    \E r, q \in Requests :
       /\ reqs[r].pc = "sleeping"
       /\ mu = q
       /\ reqs[q].pc = "recording"
       /\ ~config.Enabled
       /\ stats.LastRecoveryTime # ZeroTime

----------------------------------------------------------------------------
(* Vocabulary of the properties of tenants, rate limiter and analytics *)

\* the API keys of the tenant DB
RegisteredKeys == {"sk_test_123", "sk_test_456"}
Unregistered(r) == gw[r].pc # "new" /\ gw[r].apiKey \notin RegisteredKeys

\* the request has left the rate limiter, and on which side
PastLimiter(r) == gw[r].pc \notin {"new", "limiter", "limited"}
Rejected(r) ==
    PastLimiter(r) /\ gw[r].pc # "chaos"
       /\ gw[r].statusCode \in {StatusUnauthorized, StatusTooManyRequests}
       /\ reqs[r].pc = "new"

\* analytics.Middleware has returned for the request
PastAnalytics == {r \in Requests : gw[r].pc \in {"record", "latency", "error", "done"}}

\* the keys under which the request would be recorded with the tenant
\* resolved from its API key
ResolvedKeyOf(r) == Key(Route(r), gw[r].tenant)
ResolvedRequestKeyOf(r) == ResolvedKeyOf(r) \o ":" \o Itoa(gw[r].statusCode)
Resolved(call) == {r \in Called(call) : gw[r].tenant # ""}

(* C21, as claimed: a request whose API key resolves to a tenant is        *)
(* recorded by the Metrics middleware under that tenant: the requestCount  *)
(* entry, the latency buffer and (for a status >= 400) the errorCount      *)
(* entry of (route, resolved tenant) count every such request recorded so  *)
(* far, whether or not chaos short-circuited it.                           *)
C21_ResolvedTenantLabel ==
    /\ \A r \in Resolved("RecordRequest") :
          Lookup(metricsCollector.requestCount, ResolvedRequestKeyOf(r), 0) >=
             Cardinality({q \in Resolved("RecordRequest") :
                             ResolvedRequestKeyOf(q) = ResolvedRequestKeyOf(r)})
    /\ \A r \in Resolved("RecordLatency") :
          Len(Lookup(metricsCollector.latencies, ResolvedKeyOf(r), <<>>)) >=
             Cardinality({q \in Resolved("RecordLatency") :
                             ResolvedKeyOf(q) = ResolvedKeyOf(r)})
    /\ \A r \in Resolved("RecordError") :
          Lookup(metricsCollector.errorCount, ResolvedKeyOf(r), 0) >=
             Cardinality({q \in Resolved("RecordError") :
                             ResolvedKeyOf(q) = ResolvedKeyOf(r)})

C23_AtMostLimit ==
    \A t \in TenantIDs : Live(redis[t], now) => redis[t].passed <= Limit

(* C24, as claimed: every token key that is there has an expiry, so that   *)
(* a tenant whose requests are rejected is let through again once the      *)
(* refill window has elapsed.                                              *)
C24_KeysExpire ==
    /\ \A t \in TenantIDs :
          Live(redis[t], now) => redis[t].expires # ZeroTime
    /\ \A r \in Requests :
          gw[r].statusCode = StatusTooManyRequests =>
             redis[gw[r].tenant].expires # ZeroTime

(* C25, as claimed: analytics records every request once, whatever its     *)
(* response: the request counts of all analytics keys add up to the number *)
(* of requests for which analytics.Middleware has returned, the error      *)
(* counts to the number of those with a status >= 400.                     *)
C25_AnalyticsRecordsAll ==
    /\ SumOver(analytics.req, DOMAIN analytics.req) =
          Cardinality(PastAnalytics)
    /\ SumOver(analytics.err, DOMAIN analytics.err) =
          Cardinality({r \in PastAnalytics : gw[r].statusCode >= 400})

(* C26: a request whose X-API-Key is missing or is not a key of the tenant *)
(* DB is answered 401 by the rate limiter and goes no further: no step of  *)
(* it reads or writes a token key, it never enters the chaos middleware    *)
(* and is never forwarded to the backend.                                  *)
C26_UnauthorizedStops ==
    /\ [](\A r \in Requests :
             Unregistered(r) =>
                /\ gw[r].pc # "limited" /\ gw[r].pc # "chaos"
                /\ gw[r].tokens = Nil
                /\ reqs[r] = NewRequest
                /\ PastLimiter(r) => gw[r].statusCode = StatusUnauthorized)
    /\ [][\A r \in Requests :
             gw'[r] # gw[r] /\ gw'[r].apiKey \notin RegisteredKeys =>
                redis' = redis /\ stats' = stats]_vars

\* a request with a key that is not registered was answered 401 while the
\* request with a registered key took a token and reached the backend
C26_Witness ==
    /\ AllServed
    /\ \E r, q \in Requests :
          /\ gw[r].apiKey = "sk_test_999"
          /\ gw[r].statusCode = StatusUnauthorized
          /\ gw[q].apiKey = "sk_test_123"
          /\ gw[q].statusCode = StatusOK
          /\ PassedThrough(q)
          /\ redis[gw[q].tenant].val = Limit - 1
          /\ redis[gw[q].tenant].passed = 1

----------------------------------------------------------------------------
(* C36: the outcome counters never exceed the request counter.  In every   *)
(* reachable state, whatever the interleaving of the requests with Set,    *)
(* Clear and the scheduler, failedRequests + droppedRequests <=            *)
(* totalRequests and delayedRequests <= totalRequests.                     *)
C36_CountersBounded ==
    /\ stats.FailedRequests + stats.DroppedRequests <= stats.TotalRequests
    /\ stats.DelayedRequests <= stats.TotalRequests

\* every request was counted and then failed or dropped, one of each, with
\* a recovery among them: the first bound is reached
C36_Witness ==
    /\ AllDone
    /\ stats.TotalRequests = NumRequests
    /\ stats.FailedRequests >= 1
    /\ stats.DroppedRequests >= 1
    /\ stats.FailedRequests + stats.DroppedRequests = stats.TotalRequests
    /\ stats.LastRecoveryTime # ZeroTime

(* C39, as claimed: the stored token count is never out of range.  In      *)
(* every reachable state the count held by a tenant's token key is within  *)
(* 0 .. limit-1, whatever the interleaving of the tenant's concurrent      *)
(* requests and the expiry of the key.                                     *)
C39_TokensInRange ==
    \A t \in TenantIDs :
       Live(redis[t], now) => redis[t].val \in 0 .. Limit - 1

----------------------------------------------------------------------------
(* Vocabulary of the snapshots *)

\* what holds of the configuration and the stats of one Controller state:
\* an enabled configuration was stamped by its Set, after every recovery;
\* a disabled one was never set, or was cleared after its Set
Coherent(cfg, st) ==
    /\ cfg.Enabled =>
          /\ st.LastInjectionTime # ZeroTime
          /\ st.LastRecoveryTime <= st.LastInjectionTime
    /\ ~cfg.Enabled => st.LastInjectionTime <= st.LastRecoveryTime

(* C38, as claimed: the configuration and the stats returned by one status *)
(* query form an atomic snapshot, that is, they are the configuration and  *)
(* the stats of one Controller state, even when Set, Clear or the          *)
(* auto-recovery run during the query: enabled = true is never reported    *)
(* together with a lastRecoveryTime later than lastInjectionTime.          *)
C38_Original ==
    status.pc = "done" => Coherent(status.resp.Config, status.resp.Stats)

(* C38, amended: the configuration and the stats of a status response are  *)
(* two atomic snapshots, taken one after the other: the configuration is   *)
(* the Controller's at the instant of Get, the stats are the Controller's  *)
(* at the later instant of GetStats.  They are those of one Controller     *)
(* state if the configuration at the second read is still the one          *)
(* reported, and then enabled = true is not reported with a                *)
(* lastRecoveryTime later than lastInjectionTime.                          *)
C38_Amended ==
    /\ [](Coherent(config, stats))
    /\ [][StatusGets => status'.cfg = config]_vars
    /\ [][StatusResponds =>
             /\ status'.resp.Config = status.cfg
             /\ status'.resp.Stats = stats
             /\ status.cfg = config =>
                   Coherent(status'.resp.Config, status'.resp.Stats)]_vars

\* a recover call was served between the two reads of the query: the
\* response reports the configuration as enabled and a recovery later than
\* the injection
C38_Witness ==
    /\ status.pc = "done"
    /\ status.resp.Enabled
    /\ ~config.Enabled
    /\ status.resp.Stats.LastRecoveryTime > status.resp.Stats.LastInjectionTime
    /\ status.resp.Stats = stats

----------------------------------------------------------------------------
(* C31: the scheduler's expiry check and its reset are one step with       *)
(* respect to Set and Clear.  An iteration of the scheduler resets the     *)
(* configuration (and stamps lastRecoveryTime) exactly if, at that         *)
(* instant, the configuration in place is enabled, has expiresAt set and   *)
(* now > expiresAt; otherwise it leaves configuration and stats as they    *)
(* are.  So it never clears a configuration without expiresAt and never    *)
(* one that Set has just re-armed with an expiresAt in the future.         *)
C31_AtomicExpiry ==
    [][Ticks =>
          IF config.Enabled /\ config.ExpiresAt # ZeroTime
                /\ now > config.ExpiresAt
          THEN /\ config' = ZeroConfig
               /\ stats' = [stats EXCEPT !.LastRecoveryTime = now]
          ELSE /\ config' = config
               /\ stats' = stats]_vars

\* the request took its snapshot of a configuration that has expired by
\* now and that nobody cleared; a second Set re-armed it at this instant,
\* for one second, and the scheduler's iteration of this instant, run
\* after that Set, left the new configuration in place
C31_Witness ==
    /\ setCalls = 2
    /\ reqs[1].cfg.Enabled
    /\ reqs[1].cfg.ExpiresAt # ZeroTime
    /\ now > reqs[1].cfg.ExpiresAt
    /\ stats.LastRecoveryTime = ZeroTime
    /\ stats.LastInjectionTime = now
    /\ config.Enabled
    /\ config.ExpiresAt > now
    /\ wakeAt > now

----------------------------------------------------------------------------
(* Vocabulary of Set and Get *)

\* an administrative handler calls Set in this step
Sets == setCalls' = setCalls + 1

\* the Config value the handler served last passed to Set, at the instant
\* it was served
PassedToSet ==
    IF lastReq.handler = "ChaosConfigHandler"
    THEN ApplyConfig(lastReq.body, stats.LastInjectionTime)
    ELSE EnableConfig(lastReq.body, stats.LastInjectionTime)

(* C32: Set replaces the whole configuration at once and Get returns a     *)
(* consistent snapshot.  After a Set the configuration in place is the     *)
(* value passed to it, in all six fields; the configuration changes only   *)
(* by a Set, or to the zero configuration by a Clear or an expiry; and the *)
(* value a Get returns is the configuration in place at that instant, so   *)
(* it is the zero configuration or the value of one Set, never a mix, and  *)
(* a Get after Set(cfg) with no Set, Clear or expiry in between returns    *)
(* cfg.                                                                    *)
C32_AtomicSetGet ==
    /\ [][Sets => config' = PassedToSet']_vars
    /\ [][config' # config =>
             \/ Sets
             \/ (Clears \/ (Ticks /\ PastExpiry)) /\ config' = ZeroConfig]_vars
    /\ [][\A r \in Requests : Enters(r) => reqs'[r].cfg = config]_vars
    /\ [](\A r \in Requests : ~Entered(r) => reqs[r].cfg = ZeroConfig)

\* the request entered after the second Set and holds its value, whose six
\* fields all differ from the zero configuration's
C32_Witness ==
    /\ setCalls = 2
    /\ Entered(1)
    /\ reqs[1].cfg = config
    /\ config.Enabled
    /\ config.Route = "/users"
    /\ config.Delay = 500 * Millisecond
    /\ config.ErrorRate = 100
    /\ config.DropRate = 100
    /\ config.ExpiresAt = stats.LastInjectionTime + Second
    /\ stats.LastInjectionTime > BootTime

----------------------------------------------------------------------------
(* C37: every decision taken for a request uses the configuration          *)
(* snapshot read at its entry.  The snapshot of a request never changes    *)
(* once it has entered, and the outcome of a finished request is the one   *)
(* its snapshot calls for, whatever Set, Clear or the auto-recovery have   *)
(* made of the Controller's configuration since, during its delay or at    *)
(* any other moment: a request whose snapshot is disabled or does not      *)
(* match went through; a matching request that snapshotted errorRate =     *)
(* 100 was failed and counted in failedRequests, also after Clear has      *)
(* returned; with errorRate = 0 it was dropped if dropRate = 100 and went  *)
(* through if dropRate = 0; it was delayed iff the snapshot's delay > 0.   *)
C37_SnapshotDecides ==
    /\ [][\A r \in Requests :
             Entered(r) =>
                reqs'[r].cfg = reqs[r].cfg /\ reqs'[r].path = reqs[r].path]_vars
    /\ [](\A r \in Requests :
             Done(r) =>
                /\ ~Matches(r) =>
                      PassedThrough(r) /\ reqs[r].rec = {"RecordRequest"}
                /\ Matches(r) =>
                      ("RecordDelay" \in reqs[r].rec <=> reqs[r].cfg.Delay > 0)
                /\ Matches(r) /\ reqs[r].cfg.ErrorRate = 100 =>
                      Failed503(r) /\ "RecordFail" \in reqs[r].rec
                /\ Matches(r) /\ reqs[r].cfg.ErrorRate = 0
                      /\ reqs[r].cfg.DropRate = 100 =>
                      Dropped504(r) /\ "RecordDrop" \in reqs[r].rec
                /\ Matches(r) /\ reqs[r].cfg.ErrorRate = 0
                      /\ reqs[r].cfg.DropRate = 0 =>
                      PassedThrough(r)
                /\ Failed503(r) => reqs[r].cfg.ErrorRate > 0
                /\ Dropped504(r) => reqs[r].cfg.DropRate > 0)
    /\ [](stats.FailedRequests = Cardinality(Recorded("RecordFail")))

\* a request snapshotted errorRate = 100 with a delay; the configuration
\* was cleared at the instant it had been set, so before the delay was
\* over; the request was failed after its delay all the same, and counted
C37_Witness ==
    \E r \in Requests :
       /\ Done(r)
       /\ Delays(r)
       /\ reqs[r].cfg.ErrorRate = 100
       /\ Failed503(r)
       /\ reqs[r].rec = {"RecordRequest", "RecordDelay", "RecordFail"}
       /\ ~config.Enabled
       /\ stats.LastRecoveryTime = stats.LastInjectionTime
       /\ now > stats.LastRecoveryTime
       /\ stats.FailedRequests >= 1

----------------------------------------------------------------------------
(* Vocabulary of the chaos events *)

ChaosTypes == {"SLOW_MODE", "FAIL_BACKEND", "DROP_PERCENT"}

\* the number of CHAOS events of request r tagged with chaos_type `tag`
Events(l, r, tag) ==
    SumOver(l, {e \in DOMAIN l :
                   /\ e.req = r
                   /\ e.decision = DecisionChaos
                   /\ e.metadata.chaos_type = tag})

\* the number of events of request r, of every kind and tag
AllEvents(l, r) == SumOver(l, {e \in DOMAIN l : e.req = r})

\* the number of CHAOS events tagged `tag`, of all requests
Tagged(l, tag) ==
    SumOver(l, {e \in DOMAIN l :
                   e.decision = DecisionChaos /\ e.metadata.chaos_type = tag})

(* C35: each chaos decision emits exactly one event of kind CHAOS with its *)
(* chaos_type tag.  The events of a finished request are one SLOW_MODE     *)
(* event iff it was delayed, then one FAIL_BACKEND event iff it was failed *)
(* or one DROP_PERCENT event iff it was dropped, and nothing else; the     *)
(* SLOW_MODE event comes before the other; a request that went through     *)
(* without delay has no event; and once every request has finished the     *)
(* number of events of each type is the value of the matching counter.     *)
C35_OneEventPerDecision ==
    /\ [](\A r \in Requests :
             Done(r) =>
                /\ Events(log, r, "SLOW_MODE") =
                      IF "RecordDelay" \in reqs[r].rec THEN 1 ELSE 0
                /\ Events(log, r, "FAIL_BACKEND") =
                      IF Failed503(r) THEN 1 ELSE 0
                /\ Events(log, r, "DROP_PERCENT") =
                      IF Dropped504(r) THEN 1 ELSE 0
                /\ AllEvents(log, r) =
                      Events(log, r, "SLOW_MODE")
                         + Events(log, r, "FAIL_BACKEND")
                         + Events(log, r, "DROP_PERCENT")
                /\ Events(log, r, "FAIL_BACKEND")
                      + Events(log, r, "DROP_PERCENT") <= 1
                /\ PassedThrough(r) /\ "RecordDelay" \notin reqs[r].rec =>
                      AllEvents(log, r) = 0)
    /\ [](AllDone =>
             /\ Tagged(log, "SLOW_MODE") = stats.DelayedRequests
             /\ Tagged(log, "FAIL_BACKEND") = stats.FailedRequests
             /\ Tagged(log, "DROP_PERCENT") = stats.DroppedRequests)
    /\ [][\A r \in Requests :
             /\ AllEvents(log', r) <= AllEvents(log, r) + 1
             /\ Events(log', r, "SLOW_MODE") # Events(log, r, "SLOW_MODE") =>
                   AllEvents(log, r) = 0
             /\ AllEvents(log', r) # AllEvents(log, r) /\ Delays(r)
                   /\ Events(log', r, "SLOW_MODE") = Events(log, r, "SLOW_MODE") =>
                   Events(log, r, "SLOW_MODE") = 1]_vars

\* a request was delayed and then dropped: its events are one SLOW_MODE
\* and one DROP_PERCENT; the request on the other route went through
\* without delay and has no event
C35_Witness ==
    /\ AllDone
    /\ \E r, q \in Requests :
          /\ Dropped504(r)
          /\ Events(log, r, "SLOW_MODE") = 1
          /\ Events(log, r, "DROP_PERCENT") = 1
          /\ AllEvents(log, r) = 2
          /\ reqs[q].cfg.Enabled
          /\ PassedThrough(q)
          /\ AllEvents(log, q) = 0
    /\ stats.DelayedRequests = 1
    /\ stats.DroppedRequests = 1

----------------------------------------------------------------------------
(* Vocabulary of the percentiles *)

\* the element at zero-based index k of the samples in ascending order:
\* at most k samples are smaller and more than k are not larger
NthSmallest(samples, k) ==
    CHOOSE x \in {samples[i] : i \in 1 .. Len(samples)} :
       /\ Cardinality({i \in 1 .. Len(samples) : samples[i] < x}) <= k
       /\ Cardinality({i \in 1 .. Len(samples) : samples[i] <= x}) > k

\* floor(n * pct / 100)
Rank(n, pct) == (n * pct) \div 100

(* C34: the percentiles of a snapshot.  For a key with n samples, n >= 1,  *)
(* the snapshot's p50, p95 and p99 are the elements at zero-based index    *)
(* floor(n*50/100), floor(n*95/100) and floor(n*99/100) of the samples in  *)
(* ascending order, in milliseconds; each index lies in 0 .. n-1 for every *)
(* n up to 1000; p50 <= p95 <= p99; and taking the snapshot leaves the     *)
(* stored buffer, in its arrival order, as it was.                         *)
C34_PercentileRanks ==
    /\ [](snapshot # NoSnapshot /\ Len(Buffer) >= 1 =>
             LET n == Len(Buffer)
                 p == snapshot.latency_percentiles[FeedKey]
             IN  /\ FeedKey \in DOMAIN snapshot.latency_percentiles
                 /\ p.p50 = Milliseconds(NthSmallest(Buffer, Rank(n, 50)))
                 /\ p.p95 = Milliseconds(NthSmallest(Buffer, Rank(n, 95)))
                 /\ p.p99 = Milliseconds(NthSmallest(Buffer, Rank(n, 99)))
                 /\ p.p50 <= p.p95 /\ p.p95 <= p.p99
                 /\ Buffer = MostRecent(n))
    /\ [](\A n \in 1 .. MaxSamples :
             /\ Rank(n, 50) \in 0 .. n - 1
             /\ Rank(n, 95) \in 0 .. n - 1
             /\ Rank(n, 99) \in 0 .. n - 1)
    /\ [][snapshot' # NoSnapshot => metricsCollector' = metricsCollector]_vars

\* a snapshot of 100 samples that arrived scattered: the percentiles are
\* the 51st, 96th and 100th smallest, and the buffer is still scattered
C34_Witness ==
    /\ snapshot # NoSnapshot
    /\ feed = "mix"
    /\ Len(Buffer) = 100
    /\ Buffer[1] > Buffer[3]
    /\ snapshot.latency_percentiles[FeedKey].p50 = 51
    /\ snapshot.latency_percentiles[FeedKey].p95 = 96
    /\ snapshot.latency_percentiles[FeedKey].p99 = 100

----------------------------------------------------------------------------
(* C33, as claimed: all reads and writes of the collector's maps happen    *)
(* under its lock.  What a metrics query returns was copied while the read *)
(* lock was held, so the maps the endpoint serializes are never read while *)
(* a request writes them: the encoding always completes and the body it    *)
(* writes holds the four counter maps as they were under the read lock,    *)
(* whatever the requests recorded in the meantime.                         *)
C33_ReadUnderLock ==
    /\ encoder.pc # "fatal"
    /\ encoder.pc = "written" => encoder.body = encoder.held

====
